---- MODULE Spec2Model ----
(***************************************************************************)
(* Async I/O adaptation layer of true-async/php-src: the poll, select and  *)
(* DNS adapters of main/network_async.c and the waker-level choreography   *)
(* of the curl adapters of ext/curl/curl_async.c.                          *)
(*                                                                         *)
(* One coroutine makes one adapter call.  The synchronous part of a call   *)
(* (argument checks, waker creation, event registration) is one action,    *)
(* because no suspension occurs between registrations.  While the          *)
(* coroutine is suspended the reactor invokes the dispatchers; Resume is   *)
(* the part of the adapter after ZEND_ASYNC_SUSPEND() up to its return.    *)
(***************************************************************************)
EXTENDS Integers, Sequences, FiniteSets, TLC

\* ------------------------------------------------------------------ bounds
\* Largest nfds passed to php_poll2_async.
MaxNfds == 2
\* Number of descriptors (0 .. MaxFds-1) that may appear in a select set.
MaxFds == 2
\* How many times in one call the reactor may invoke the dispatcher of an
\* event that it has invoked before (the first invocation of each event is
\* always possible).
MaxRefires == 1
\* Reactor ticks that may pass without any event of the call firing.
MaxTicks == 2
\* Successful php_network_gethostbyname_async calls made by one coroutine.
MaxHostentCalls == 5
\* Easy handles (each used by its own coroutine) sharing curl_multi_handle.
MaxHandles == 2
\* Socket events that the socket callbacks of a bridge may create.
MaxSlots == 2
\* Socket callbacks the engine may make inside one curl_multi_socket_action.
MaxKick == 3
\* Timer events that curl_timer_cb or multi_timer_cb may create.
MaxTimers == 3

\* --------------------------------------------------------- program constants
CURLE_OK == 0
CURLE_FAILED_INIT == 2
CURLE_ABORTED_BY_CALLBACK == 42
CURLM_OK == 0
CURLM_INTERNAL_ERROR == 4
CURLE_COULDNT_CONNECT == 7


VARIABLES
    pc,         \* "idle", "suspended" or "returned": position of the coroutine
    adapter,    \* the adapter being called
    waker,      \* coroutine->waker
    events,     \* reactor events created by the call, by id
    exception,  \* EG(exception): "none", "cancel", "timeout" or "other"
    errno,      \* errno; "STALE" is whatever the caller had before the call
    ret,        \* value returned by the adapter
    ufds,       \* the caller's php_pollfd array
    args,       \* arguments of the call that stay fixed
    rfds, wfds, efds,           \* the caller's fd_sets ([null, fds])
    aread, awrite, aexcept,     \* scratch fd_sets of php_select_async
    res,        \* *res of getaddrinfo / hostname_result of gethostbyaddr
    numfds,     \* *numfds of curl_async_select, *running_handles of
                \* curl_async_multi_perform
    bridge,     \* curl_m->async_event: the bridge context of the multi handle
    ticks,      \* reactor ticks the suspended coroutine has waited through
                \* without anything resuming it
    cancelled,  \* the coroutine was cancelled while suspended
    failure,    \* the failure pending when the coroutine left its suspension
    timedOut,   \* the waker's timer fired
    coroutine_state,    \* "running", "ending" (its end callbacks run) or "ended"
    internal_context,   \* the coroutine's context slot under hostent_key:
                        \* 0 when unset, else the hostent it points at
    end_callbacks,      \* hostent_free_callback records on coroutine->event
    pending_callbacks,  \* end callbacks still to be invoked while ending
    allocated,          \* hostent buffers allocated so far (numbered from 1)
    live_hostents,      \* hostent buffers allocated and not freed
    frees,              \* how often each hostent buffer was freed
    hostent,            \* what the last php_network_gethostbyname_async returned
    performs,           \* per easy handle: the coroutine that runs
                        \* curl_async_perform on it ([pc, waker, ret, failure])
    curl_multi_event_list,  \* easy handles with a started curl_event
    multi_handles,      \* easy handles added to curl_multi_handle
    messages,           \* the engine's queue of DONE messages
    done_code,          \* status code of the DONE message of each handle
    socket_events,      \* reactor socket events made by the socket callbacks,
                        \* in order of creation: [socket, events, started,
                        \* disposed]
    socket_slots,       \* the engine's record of each socket it watches for
                        \* the shared multi handle: [curl: the easy handle (0:
                        \* none), ptr: the pointer given to curl_multi_assign]
    thread_locals,      \* curl_multi_handle, curl_multi_event_list (TRUE: not
                        \* NULL) and timer (0: NULL, else its index in
                        \* timer_events)
    timer_events        \* reactor timer events made by curl_timer_cb, in
                        \* order of creation: [started, disposed]
                        \* (-1: none yet)

\* state of the per-coroutine hostent storage
hvars == <<coroutine_state, internal_context, end_callbacks, pending_callbacks,
           allocated, live_hostents, frees, hostent>>

\* state of the single-handle curl bridge shared by several coroutines
cvars == <<performs, curl_multi_event_list, multi_handles, messages, done_code>>

\* reactor events owned by the curl bridges
rvars == <<socket_events, socket_slots, thread_locals, timer_events>>

vars == <<pc, adapter, waker, events, exception, errno, ret, ufds, args,
          rfds, wfds, efds, aread, awrite, aexcept, res, numfds, bridge,
          ticks, cancelled, failure, timedOut, hvars, cvars, rvars>>

\* ------------------------------------------------------- event translation
poll2_events_to_async(ev) ==
    (IF "POLLIN" \in ev THEN {"READABLE"} ELSE {})
    \cup (IF "POLLOUT" \in ev THEN {"WRITABLE"} ELSE {})
    \cup (IF "POLLHUP" \in ev THEN {"DISCONNECT"} ELSE {})
    \cup (IF "POLLPRI" \in ev THEN {"PRIORITIZED"} ELSE {})
    \cup (IF "POLLERR" \in ev THEN {"READABLE"} ELSE {})
    \cup (IF "POLLNVAL" \in ev THEN {"READABLE"} ELSE {})

async_events_to_poll2(ev) ==
    (IF "READABLE" \in ev THEN {"POLLIN"} ELSE {})
    \cup (IF "WRITABLE" \in ev THEN {"POLLOUT"} ELSE {})
    \cup (IF "DISCONNECT" \in ev THEN {"POLLHUP"} ELSE {})
    \cup (IF "PRIORITIZED" \in ev THEN {"POLLPRI"} ELSE {})

\* ------------------------------------------------------------------- zvals
UNDEF == [type |-> "UNDEF", lval |-> 0]
ZLong(n) == [type |-> "LONG", lval |-> n]
ZTrue == [type |-> "TRUE", lval |-> 0]
ZFalse == [type |-> "FALSE", lval |-> 0]

\* ------------------------------------------------------------------- waker
NullWaker ==
    [alive |-> FALSE, result |-> UNDEF, timer |-> FALSE,
     error |-> "none", queued |-> FALSE]

\* zend_async_waker_new_with_timeout: a timer is linked only for a timeout
\* greater than zero.  The argument is a zend_ulong: every non-zero int,
\* negative ones included, converts to a value greater than zero.
zend_async_waker_new_with_timeout(timeout) ==
    [alive |-> TRUE, result |-> UNDEF, timer |-> timeout # 0,
     error |-> "none", queued |-> FALSE]

zend_async_waker_new == zend_async_waker_new_with_timeout(0)

\* zend_async_waker_destroy: the slot becomes NULL
zend_async_waker_destroy(w) == NullWaker

\* Destroying the waker stops and disposes every event linked through it.
StopAll(evs) == [id \in DOMAIN evs |-> [evs[id] EXCEPT !.live = FALSE]]

\* ZEND_ASYNC_RESUME / ZEND_ASYNC_RESUME_WITH_ERROR: the first resumption
\* queues the coroutine; the most recent failure is the one it resumes with.
ResumeCoroutine(w, err) ==
    [w EXCEPT !.queued = TRUE,
              !.error = IF err # "none" THEN err ELSE @]

\* ------------------------------------------------- exception-to-errno mapper
\* Variant without the cancellation branch: a cancellation falls through to
\* the default.
handle_exception_no_cancel(exc) ==
    IF exc = "timeout" THEN "ETIMEDOUT"
    ELSE "EINTR"

\* Variant without the timeout branch: a timeout falls through to the default.
handle_exception_no_timeout(exc) ==
    IF exc = "cancel" THEN "ECANCELED"
    ELSE "EINTR"

handle_exception_and_errno(exc) ==
    IF exc = "cancel" THEN "ECANCELED"
    ELSE IF exc = "timeout" THEN "ETIMEDOUT"
    ELSE "EINTR"

\* ------------------------------------------------------------ initial state
NoSet == [null |-> TRUE, fds |-> {}]
NoTv == [null |-> TRUE, tv_sec |-> 0, tv_usec |-> 0]
NoArgs == [timeout |-> 0, max_fd |-> 0, huge |-> FALSE, tv |-> NoTv,
           rfds |-> NoSet, wfds |-> NoSet, efds |-> NoSet]

\* No bridge context yet; poll_list is the fd -> socket event table, held as
\* the slots of the HashTable in insertion order (-1: a slot whose entry was
\* deleted).
NoBridge == [present |-> FALSE, poll_list |-> << >>, timer |-> 0]

Init ==
    /\ pc = "idle"
    /\ adapter = "none"
    /\ waker = NullWaker
    /\ events = << >>
    /\ exception = "none"
    /\ errno = "STALE"
    /\ ret = 0
    /\ ufds = << >>
    /\ args = NoArgs
    /\ rfds = NoSet /\ wfds = NoSet /\ efds = NoSet
    /\ aread = {} /\ awrite = {} /\ aexcept = {}
    /\ res = 0
    /\ numfds = 0
    /\ bridge = NoBridge
    /\ ticks = 0
    /\ cancelled = FALSE
    /\ failure = "none"
    /\ timedOut = FALSE
    /\ coroutine_state = "running"
    /\ internal_context = 0
    /\ end_callbacks = 0
    /\ pending_callbacks = 0
    /\ allocated = 0
    /\ live_hostents = {}
    /\ frees = [h \in 1..MaxHostentCalls |-> 0]
    /\ hostent = 0
    /\ performs = [h \in 1..MaxHandles |->
                      [pc |-> "idle", waker |-> NullWaker, ret |-> CURLE_OK,
                       failure |-> "none"]]
    /\ curl_multi_event_list = {}
    /\ multi_handles = {}
    /\ messages = << >>
    /\ done_code = [h \in 1..MaxHandles |-> -1]
    /\ socket_events = << >>
    /\ socket_slots = [fd \in 0..(MaxFds - 1) |-> [curl |-> 0, ptr |-> 0]]
    /\ thread_locals = [curl_multi_handle |-> FALSE, curl_multi_event_list |-> FALSE,
                        timer |-> 0]
    /\ timer_events = << >>

\* A reactor event linked to the waker: requested bits, whether it is still
\* started, how often its dispatcher ran, which bits it reported, and whether
\* a dispatcher marked its failure as handled.
NewEvent(bits) ==
    [bits |-> bits, live |-> TRUE, fires |-> 0, seen |-> {},
     exception_handled |-> FALSE]

\* Invocations of dispatchers of the call beyond the first of each event.
RECURSIVE RefiresOf(_, _)
RefiresOf(evs, ids) ==
    IF ids = {} THEN 0
    ELSE LET id == CHOOSE x \in ids : TRUE
         IN (IF evs[id].fires > 1 THEN evs[id].fires - 1 ELSE 0)
            + RefiresOf(evs, ids \ {id})

Refires == RefiresOf(events, DOMAIN events)

\* The reactor may invoke the dispatcher of event id now.
MayFire(id) ==
    /\ events[id].live
    /\ events[id].fires = 0 \/ Refires < MaxRefires

\* What goes wrong during the setup of a call: nothing, the creation of the
\* waker, the construction of the event number `at`, or linking that event.
SetupFails(ids) ==
    {[kind |-> "none", at |-> 0], [kind |-> "waker", at |-> 0]}
    \cup [kind : {"ctor", "link"}, at : ids]

\* ------------------------------------------------------------ poll adapter
\* Requested events of the first entry (the others ask for POLLIN), and the
\* revents the caller left in the entries of the array (zeroed, or as an
\* earlier call returned them).
EventsMenu == {{"POLLIN"}, {"POLLOUT"}, {"POLLERR"}}
StaleMenu == {{}, {"POLLOUT"}}
TimeoutMenu == {-1, 0, 100}

Entries(n) ==
    {[i \in 1..n |-> [fd |-> i + 2,
                      events |-> IF i = 1 THEN ev ELSE {"POLLIN"},
                      revents |-> st]] :
        ev \in EventsMenu, st \in StaleMenu}

\* php_poll2_async up to ZEND_ASYNC_SUSPEND()
php_poll2_async(entries, timeout, coroutine, fail) ==
    LET nfds == Len(entries)
        t == IF timeout < 0 THEN 0 ELSE timeout
        w == zend_async_waker_new_with_timeout(t)
        made(k) == [i \in 1..k |-> NewEvent(poll2_events_to_async(entries[i].events))]
    IN
    /\ adapter' = "poll"
    /\ ufds' = entries
    /\ args' = [NoArgs EXCEPT !.timeout = timeout]
    /\ UNCHANGED <<rfds, wfds, efds, aread, awrite, aexcept, res, numfds, bridge,
                   ticks, cancelled, failure, timedOut>>
    /\ IF ~coroutine THEN
            /\ errno' = "EINVAL" /\ ret' = -1 /\ pc' = "returned"
            /\ UNCHANGED <<waker, events, exception>>
       ELSE IF fail.kind = "waker" THEN
            \* IF_EXCEPTION_GOTO_ERROR after the waker is created
            /\ ret' = -1 /\ errno' = handle_exception_and_errno("other")
            /\ exception' = "none"
            /\ waker' = zend_async_waker_destroy(w)
            /\ events' = events /\ pc' = "returned"
       ELSE IF fail.kind = "ctor" THEN
            \* the reactor raised while constructing event fail.at
            /\ errno' = "ENOMEM" /\ ret' = -1
            /\ exception' = "other"
            /\ waker' = zend_async_waker_destroy(w)
            /\ events' = StopAll(made(fail.at - 1)) /\ pc' = "returned"
       ELSE IF fail.kind = "link" THEN
            \* zend_async_resume_when raised for event fail.at
            /\ ret' = -1 /\ errno' = handle_exception_and_errno("other")
            /\ exception' = "none"
            /\ waker' = zend_async_waker_destroy(w)
            /\ events' = StopAll(made(fail.at)) /\ pc' = "returned"
       ELSE
            /\ waker' = [w EXCEPT !.result = ZLong(0)]
            /\ events' = made(nfds)
            /\ pc' = "suspended"
            /\ UNCHANGED <<exception, errno, ret>>

PollCall ==
    /\ pc = "idle"
    /\ \E n \in 0..MaxNfds : \E entries \in Entries(n) :
       \E timeout \in TimeoutMenu : \E coroutine \in BOOLEAN :
       \E fail \in SetupFails(1..n) :
          php_poll2_async(entries, timeout, coroutine, fail)
    /\ UNCHANGED <<hvars, cvars, rvars>>

\* What the reactor may report for an event: nothing, any one of the bits
\* requested, all of them, or a hang-up.
Triggerable(e) == {{}, e.bits, {"DISCONNECT"}} \cup {{b} : b \in e.bits}

\* A poll dispatcher that writes revents and counts only when it is the one
\* that schedules the coroutine.
poll_callback_resolve_first_only(i, trig, exc) ==
    LET revents == async_events_to_poll2(trig)
    IN
    /\ events' = [events EXCEPT ![i].fires = @ + 1,
                                ![i].seen = IF exc = "none" THEN @ \cup trig ELSE @,
                                ![i].exception_handled = @ \/ exc # "none"]
    /\ IF exc # "none" THEN
            /\ waker' = ResumeCoroutine(waker, exc)
            /\ UNCHANGED ufds
       ELSE IF waker.alive /\ ~waker.queued THEN
            /\ ufds' = [ufds EXCEPT ![i].revents = revents]
            /\ waker' = ResumeCoroutine(
                   IF revents # {} THEN [waker EXCEPT !.result = ZLong(1)] ELSE waker,
                   "none")
       ELSE
            /\ waker' = ResumeCoroutine(waker, "none")
            /\ UNCHANGED ufds
    /\ ticks' = 0
    /\ UNCHANGED <<pc, adapter, exception, errno, ret, args, rfds, wfds, efds,
                   aread, awrite, aexcept, res, numfds, bridge, cancelled, failure, timedOut>>

\* poll_callback_resolve, invoked by the reactor for entry i
poll_callback_resolve(i, trig, exc) ==
    LET revents == async_events_to_poll2(trig)
        counted == IF waker.result.type = "UNDEF" THEN ZLong(1)
                   ELSE [waker.result EXCEPT !.lval = @ + 1]
    IN
    /\ events' = [events EXCEPT ![i].fires = @ + 1,
                                ![i].seen = IF exc = "none" THEN @ \cup trig ELSE @,
                                \* ZEND_ASYNC_EVENT_SET_EXCEPTION_HANDLED(event)
                                ![i].exception_handled = @ \/ exc # "none"]
    /\ IF exc # "none" THEN
            /\ waker' = ResumeCoroutine(waker, exc)
            /\ UNCHANGED ufds
       ELSE IF waker.alive THEN
            /\ ufds' = [ufds EXCEPT ![i].revents = revents]
            /\ waker' = ResumeCoroutine(
                   IF revents # {} THEN [waker EXCEPT !.result = counted] ELSE waker,
                   "none")
       ELSE
            /\ waker' = ResumeCoroutine(waker, "none")
            /\ UNCHANGED ufds
    /\ ticks' = 0
    /\ UNCHANGED <<pc, adapter, exception, errno, ret, args, rfds, wfds, efds,
                   aread, awrite, aexcept, res, numfds, bridge, cancelled, failure, timedOut>>

PollCallback ==
    /\ pc = "suspended" /\ adapter = "poll"
    /\ \E i \in DOMAIN events :
          /\ MayFire(i)
          /\ \/ \E trig \in Triggerable(events[i]) : poll_callback_resolve(i, trig, "none")
             \/ poll_callback_resolve(i, {}, "other")
    /\ UNCHANGED <<hvars, cvars, rvars>>

\* A return of php_poll2_async that leaves the waker, and the events linked
\* through it, as they are.
PollResumeKeepWaker ==
    /\ pc = "suspended" /\ adapter = "poll" /\ waker.queued
    /\ pc' = "returned"
    /\ failure' = waker.error
    /\ IF waker.error # "none" THEN
            /\ ret' = -1
            /\ errno' = handle_exception_and_errno(waker.error)
       ELSE
            /\ ret' = waker.result.lval
            /\ UNCHANGED errno
    /\ exception' = "none"
    /\ UNCHANGED <<adapter, waker, events, ufds, args, rfds, wfds, efds, aread,
                   awrite, aexcept, res, numfds, bridge, ticks, cancelled, timedOut>>
    /\ UNCHANGED <<hvars, cvars, rvars>>

\* php_poll2_async from the return of ZEND_ASYNC_SUSPEND() to its own return
PollResume ==
    /\ pc = "suspended" /\ adapter = "poll" /\ waker.queued
    /\ pc' = "returned"
    /\ failure' = waker.error
    /\ IF waker.error # "none" THEN
            /\ ret' = -1
            /\ errno' = handle_exception_and_errno(waker.error)
       ELSE
            /\ ret' = waker.result.lval
            /\ UNCHANGED errno
    /\ exception' = "none"
    /\ waker' = zend_async_waker_destroy(waker)
    /\ events' = StopAll(events)
    /\ UNCHANGED <<adapter, ufds, args, rfds, wfds, efds, aread, awrite, aexcept,
                   res, numfds, bridge, ticks, cancelled, timedOut>>
    /\ UNCHANGED <<hvars, cvars, rvars>>

\* ---------------------------------------------------------- select adapter
FdSet(s) == [null |-> FALSE, fds |-> s]
Fds == 0..(MaxFds - 1)

\* The sets a caller passes: any read set, and a write set and an exception
\* set that are absent or hold one descriptor.
RfdsMenu == {NoSet} \cup {FdSet(s) : s \in SUBSET Fds}
WfdsMenu == {NoSet, FdSet({0})}
EfdsMenu == {NoSet, FdSet({MaxFds - 1})}
\* tv: absent, zero, half a millisecond, 100 ms
TvMenu == {NoTv} \cup {[null |-> FALSE, tv_sec |-> 0, tv_usec |-> u] : u \in {0, 500, 100000}}

SAFE_FD_ISSET(fd, set) == ~set.null /\ fd \in set.fds

\* the reactor bits php_select_async requests for descriptor i
SelectEvents(i, r, w, e) ==
    (IF SAFE_FD_ISSET(i, r) THEN {"READABLE"} ELSE {})
    \cup (IF SAFE_FD_ISSET(i, w) THEN {"WRITABLE"} ELSE {})
    \cup (IF SAFE_FD_ISSET(i, e) THEN {"PRIORITIZED"} ELSE {})

\* the descriptors below max_fd for which an event is created
SelectFds(max_fd, r, w, e) == {i \in 0..(max_fd - 1) : SelectEvents(i, r, w, e) # {}}

SelectTimeout(tv) == IF tv.null THEN 0 ELSE tv.tv_sec * 1000 + tv.tv_usec \div 1000

\* php_select_async up to ZEND_ASYNC_SUSPEND().  huge: max_fd exceeds INT_MAX
\* (a socket value where php_socket_t is wider than int).
php_select_async(max_fd, huge, r, w, e, tv, coroutine, fail) ==
    LET w0 == zend_async_waker_new_with_timeout(SelectTimeout(tv))
        ids == SelectFds(max_fd, r, w, e)
        \* the events created before the loop reaches descriptor k
        made(k) == [i \in {j \in ids : j < k} |-> NewEvent(SelectEvents(i, r, w, e))]
    IN
    /\ adapter' = "select"
    /\ args' = [NoArgs EXCEPT !.max_fd = max_fd, !.huge = huge, !.tv = tv,
                              !.rfds = r, !.wfds = w, !.efds = e]
    /\ rfds' = r /\ wfds' = w /\ efds' = e
    /\ aread' = {} /\ awrite' = {} /\ aexcept' = {}
    /\ UNCHANGED <<ufds, res, numfds, bridge, ticks, cancelled, failure, timedOut>>
    /\ IF ~coroutine THEN
            /\ errno' = "EINVAL" /\ ret' = -1 /\ pc' = "returned"
            /\ UNCHANGED <<waker, events, exception>>
       ELSE IF huge THEN
            \* max_fd > INT_MAX: returns -1 and leaves errno alone
            /\ ret' = -1 /\ pc' = "returned"
            /\ UNCHANGED <<waker, events, exception, errno>>
       ELSE IF fail.kind = "waker" THEN
            /\ ret' = -1 /\ errno' = handle_exception_and_errno("other")
            /\ exception' = "none"
            /\ waker' = zend_async_waker_destroy(w0)
            /\ events' = events /\ pc' = "returned"
       ELSE IF fail.kind = "ctor" THEN
            /\ errno' = "ENOMEM" /\ ret' = -1
            /\ exception' = "other"
            /\ waker' = zend_async_waker_destroy(w0)
            /\ events' = StopAll(made(fail.at)) /\ pc' = "returned"
       ELSE IF fail.kind = "link" THEN
            /\ ret' = -1 /\ errno' = handle_exception_and_errno("other")
            /\ exception' = "none"
            /\ waker' = zend_async_waker_destroy(w0)
            /\ events' = StopAll(made(fail.at + 1)) /\ pc' = "returned"
       ELSE
            /\ waker' = [w0 EXCEPT !.result = ZLong(0)]
            /\ events' = made(max_fd)
            /\ pc' = "suspended"
            /\ UNCHANGED <<exception, errno, ret>>

SelectCall ==
    /\ pc = "idle"
    /\ \E max_fd \in {MaxFds - 1, MaxFds} : \E huge \in BOOLEAN :
       \E r \in RfdsMenu : \E w \in WfdsMenu : \E e \in EfdsMenu :
       \E tv \in TvMenu : \E coroutine \in BOOLEAN :
       \E fail \in SetupFails(SelectFds(max_fd, r, w, e)) :
          php_select_async(max_fd, huge, r, w, e, tv, coroutine, fail)
    /\ UNCHANGED <<hvars, cvars, rvars>>

\* Variant of select_callback_resolve that marks the descriptor readable on
\* any reported readiness, without testing the READABLE bit.
select_callback_any_readable(fd, trig, exc) ==
    LET counted == IF waker.result.type = "UNDEF" THEN ZLong(1)
                   ELSE [waker.result EXCEPT !.lval = @ + 1]
    IN
    /\ events' = [events EXCEPT ![fd].fires = @ + 1,
                                ![fd].seen = IF exc = "none" THEN @ \cup trig ELSE @,
                                \* ZEND_ASYNC_EVENT_SET_EXCEPTION_HANDLED(event)
                                ![fd].exception_handled = @ \/ exc # "none"]
    /\ IF exc # "none" THEN
            /\ waker' = ResumeCoroutine(waker, exc)
            /\ UNCHANGED <<aread, awrite, aexcept>>
       ELSE IF waker.alive /\ trig # {} THEN
            /\ aread' = aread \cup {fd}
            /\ awrite' = IF "WRITABLE" \in trig THEN awrite \cup {fd} ELSE awrite
            /\ aexcept' = IF trig \cap {"DISCONNECT", "PRIORITIZED"} # {}
                          THEN aexcept \cup {fd} ELSE aexcept
            /\ waker' = ResumeCoroutine([waker EXCEPT !.result = counted], "none")
       ELSE
            /\ waker' = ResumeCoroutine(waker, "none")
            /\ UNCHANGED <<aread, awrite, aexcept>>
    /\ ticks' = 0
    /\ UNCHANGED <<pc, adapter, exception, errno, ret, ufds, args, rfds, wfds, efds,
                   res, numfds, bridge, cancelled, failure, timedOut>>

\* select_callback_resolve, invoked by the reactor for descriptor fd.  The
\* record's rfds, wfds and efds point at the scratch sets and are never null.
select_callback_resolve(fd, trig, exc) ==
    LET counted == IF waker.result.type = "UNDEF" THEN ZLong(1)
                   ELSE [waker.result EXCEPT !.lval = @ + 1]
    IN
    /\ events' = [events EXCEPT ![fd].fires = @ + 1,
                                ![fd].seen = IF exc = "none" THEN @ \cup trig ELSE @,
                                \* ZEND_ASYNC_EVENT_SET_EXCEPTION_HANDLED(event)
                                ![fd].exception_handled = @ \/ exc # "none"]
    /\ IF exc # "none" THEN
            /\ waker' = ResumeCoroutine(waker, exc)
            /\ UNCHANGED <<aread, awrite, aexcept>>
       ELSE IF waker.alive /\ trig # {} THEN
            /\ aread' = IF "READABLE" \in trig THEN aread \cup {fd} ELSE aread
            /\ awrite' = IF "WRITABLE" \in trig THEN awrite \cup {fd} ELSE awrite
            /\ aexcept' = IF trig \cap {"DISCONNECT", "PRIORITIZED"} # {}
                          THEN aexcept \cup {fd} ELSE aexcept
            /\ waker' = ResumeCoroutine([waker EXCEPT !.result = counted], "none")
       ELSE
            /\ waker' = ResumeCoroutine(waker, "none")
            /\ UNCHANGED <<aread, awrite, aexcept>>
    /\ ticks' = 0
    /\ UNCHANGED <<pc, adapter, exception, errno, ret, ufds, args, rfds, wfds, efds,
                   res, numfds, bridge, cancelled, failure, timedOut>>

SelectCallback ==
    /\ pc = "suspended" /\ adapter = "select"
    /\ \E fd \in DOMAIN events :
          /\ MayFire(fd)
          /\ \/ \E trig \in Triggerable(events[fd]) : select_callback_resolve(fd, trig, "none")
             \/ select_callback_resolve(fd, {}, "other")
    /\ UNCHANGED <<hvars, cvars, rvars>>

\* A return of php_select_async that copies the scratch sets over the
\* caller's sets before it looks at the failure.
SelectResumeCopyFirst ==
    /\ pc = "suspended" /\ adapter = "select" /\ waker.queued
    /\ pc' = "returned"
    /\ failure' = waker.error
    /\ rfds' = IF rfds.null THEN rfds ELSE FdSet(aread)
    /\ wfds' = IF wfds.null THEN wfds ELSE FdSet(awrite)
    /\ efds' = IF efds.null THEN efds ELSE FdSet(aexcept)
    /\ IF waker.error # "none" THEN
            /\ ret' = -1
            /\ errno' = handle_exception_and_errno(waker.error)
       ELSE
            /\ ret' = waker.result.lval
            /\ UNCHANGED errno
    /\ exception' = "none"
    /\ waker' = zend_async_waker_destroy(waker)
    /\ events' = StopAll(events)
    /\ UNCHANGED <<adapter, ufds, args, aread, awrite, aexcept,
                   res, numfds, bridge, ticks, cancelled, timedOut>>
    /\ UNCHANGED <<hvars, cvars, rvars>>

\* php_select_async from the return of ZEND_ASYNC_SUSPEND() to its own return
SelectResume ==
    /\ pc = "suspended" /\ adapter = "select" /\ waker.queued
    /\ pc' = "returned"
    /\ failure' = waker.error
    /\ IF waker.error # "none" THEN
            /\ ret' = -1
            /\ errno' = handle_exception_and_errno(waker.error)
            /\ UNCHANGED <<rfds, wfds, efds>>
       ELSE
            /\ ret' = waker.result.lval
            /\ rfds' = IF rfds.null THEN rfds ELSE FdSet(aread)
            /\ wfds' = IF wfds.null THEN wfds ELSE FdSet(awrite)
            /\ efds' = IF efds.null THEN efds ELSE FdSet(aexcept)
            /\ UNCHANGED errno
    /\ exception' = "none"
    /\ waker' = zend_async_waker_destroy(waker)
    /\ events' = StopAll(events)
    /\ UNCHANGED <<adapter, ufds, args, aread, awrite, aexcept,
                   res, numfds, bridge, ticks, cancelled, timedOut>>
    /\ UNCHANGED <<hvars, cvars, rvars>>

\* ------------------------------------------------------------- DNS adapter
\* The DNS adapters create one event, number 0; the reactor may also hand
\* back no event without raising.
DnsFails == SetupFails({0}) \cup {[kind |-> "null", at |-> 0]}

\* php_network_getaddrinfo_async up to ZEND_ASYNC_SUSPEND()
php_network_getaddrinfo_async(node_null, service_null, coroutine, fail) ==
    LET w == zend_async_waker_new
    IN
    /\ adapter' = "getaddrinfo"
    /\ UNCHANGED <<ufds, args, rfds, wfds, efds, aread, awrite, aexcept, res,
                   numfds, bridge, ticks, cancelled, failure, timedOut>>
    /\ IF ~coroutine \/ (node_null /\ service_null) THEN
            /\ errno' = "EINVAL" /\ ret' = -1 /\ pc' = "returned"
            /\ UNCHANGED <<waker, events, exception>>
       ELSE IF fail.kind \in {"waker", "ctor", "null", "link"} THEN
            \* error: the ENOMEM stored for a failed construction is
            \* overwritten by handle_exception_and_errno()
            /\ ret' = -1
            /\ errno' = handle_exception_and_errno(
                            IF fail.kind = "null" THEN "none" ELSE "other")
            /\ exception' = "none"
            /\ waker' = zend_async_waker_destroy(w)
            /\ events' = IF fail.kind = "link" THEN StopAll([i \in {0} |-> NewEvent({})])
                         ELSE events
            /\ pc' = "returned"
       ELSE
            /\ waker' = [w EXCEPT !.result = ZFalse]
            /\ events' = [i \in {0} |-> NewEvent({})]
            /\ pc' = "suspended"
            /\ UNCHANGED <<exception, errno, ret>>

GetaddrinfoCall ==
    /\ pc = "idle"
    /\ \E node_null \in BOOLEAN : \E service_null \in BOOLEAN :
       \E coroutine \in BOOLEAN : \E fail \in DnsFails :
          php_network_getaddrinfo_async(node_null, service_null, coroutine, fail)
    /\ UNCHANGED <<hvars, cvars, rvars>>

\* dns_callback_resolve; chain is dns_event->result
dns_callback_resolve(chain, exc) ==
    /\ events' = [events EXCEPT ![0].fires = @ + 1,
                                \* ZEND_ASYNC_EVENT_SET_EXCEPTION_HANDLED(event)
                                ![0].exception_handled = @ \/ exc # "none"]
    /\ IF exc # "none" THEN
            /\ waker' = ResumeCoroutine(waker, exc)
            /\ UNCHANGED res
       ELSE IF waker.alive THEN
            /\ res' = chain
            /\ waker' = ResumeCoroutine([waker EXCEPT !.result = ZTrue], "none")
       ELSE
            /\ waker' = ResumeCoroutine(waker, "none")
            /\ UNCHANGED res
    /\ ticks' = 0
    /\ UNCHANGED <<pc, adapter, exception, errno, ret, ufds, args, rfds, wfds, efds,
                   aread, awrite, aexcept, numfds, bridge, cancelled, failure, timedOut>>

\* dns_nameinfo_callback_resolve; hostname is dns_event->hostname
dns_nameinfo_callback_resolve(hostname, exc) == dns_callback_resolve(hostname, exc)

DnsCallback ==
    /\ pc = "suspended" /\ adapter = "getaddrinfo"
    /\ MayFire(0)
    /\ \/ dns_callback_resolve(1, "none")
       \/ dns_callback_resolve(0, "other")
    /\ UNCHANGED <<hvars, cvars, rvars>>

DnsNameinfoCallback ==
    /\ pc = "suspended" /\ adapter = "gethostbyaddr"
    /\ MayFire(0)
    /\ \/ \E hostname \in {0, 1} : dns_nameinfo_callback_resolve(hostname, "none")
       \/ dns_nameinfo_callback_resolve(0, "other")
    /\ UNCHANGED <<hvars, cvars, rvars>>

\* php_network_getaddrinfo_async from the return of ZEND_ASYNC_SUSPEND() on
GetaddrinfoResume ==
    /\ pc = "suspended" /\ adapter = "getaddrinfo" /\ waker.queued
    /\ pc' = "returned"
    /\ failure' = waker.error
    /\ IF waker.error = "none" /\ waker.result.type = "TRUE" THEN
            /\ ret' = 0
            /\ UNCHANGED errno
       ELSE
            /\ ret' = -1
            /\ errno' = handle_exception_and_errno(waker.error)
    /\ exception' = "none"
    /\ waker' = zend_async_waker_destroy(waker)
    /\ events' = StopAll(events)
    /\ UNCHANGED <<adapter, ufds, args, rfds, wfds, efds, aread, awrite, aexcept,
                   res, numfds, bridge, ticks, cancelled, timedOut>>
    /\ UNCHANGED <<hvars, cvars, rvars>>

\* php_network_gethostbyaddr_async up to ZEND_ASYNC_SUSPEND(); ip is "null",
\* "invalid" (inet_pton rejects it) or "valid".  It returns a string or NULL
\* (0) and never stores to errno.
php_network_gethostbyaddr_async(ip, coroutine, fail) ==
    LET w == zend_async_waker_new
    IN
    /\ adapter' = "gethostbyaddr"
    /\ UNCHANGED <<ufds, args, rfds, wfds, efds, aread, awrite, aexcept, res,
                   numfds, bridge, ticks, cancelled, failure, timedOut, errno>>
    /\ IF ~coroutine \/ ip # "valid" THEN
            /\ ret' = 0 /\ pc' = "returned"
            /\ UNCHANGED <<waker, events, exception>>
       ELSE IF fail.kind \in {"waker", "ctor", "null", "link"} THEN
            /\ ret' = 0
            /\ exception' = "none"
            /\ waker' = zend_async_waker_destroy(w)
            /\ events' = IF fail.kind = "link" THEN StopAll([i \in {0} |-> NewEvent({})])
                         ELSE events
            /\ pc' = "returned"
       ELSE
            /\ waker' = [w EXCEPT !.result = ZFalse]
            /\ events' = [i \in {0} |-> NewEvent({})]
            /\ pc' = "suspended"
            /\ UNCHANGED <<exception, ret>>

GethostbyaddrCall ==
    /\ pc = "idle"
    /\ \E ip \in {"null", "invalid", "valid"} :
       \E coroutine \in BOOLEAN : \E fail \in DnsFails :
          php_network_gethostbyaddr_async(ip, coroutine, fail)
    /\ UNCHANGED <<hvars, cvars, rvars>>

\* php_network_gethostbyaddr_async from the return of ZEND_ASYNC_SUSPEND() on
GethostbyaddrResume ==
    /\ pc = "suspended" /\ adapter = "gethostbyaddr" /\ waker.queued
    /\ pc' = "returned"
    /\ failure' = waker.error
    /\ ret' = IF waker.error = "none" /\ waker.result.type = "TRUE" THEN res ELSE 0
    /\ exception' = "none"
    /\ waker' = zend_async_waker_destroy(waker)
    /\ events' = StopAll(events)
    /\ UNCHANGED <<adapter, errno, ufds, args, rfds, wfds, efds, aread, awrite,
                   aexcept, res, numfds, bridge, ticks, cancelled, timedOut>>
    /\ UNCHANGED <<hvars, cvars, rvars>>

\* ------------------------------------------------------------ curl adapters
\* zend_async_waker_callback_resolve, the dispatcher both curl adapters link:
\* a failure resumes the coroutine with it, otherwise the notified value (if
\* there is one) becomes the waker's result and the coroutine is resumed.
zend_async_waker_callback_resolve(w, result, exc) ==
    IF exc # "none" THEN ResumeCoroutine(w, exc)
    ELSE ResumeCoroutine([w EXCEPT !.result = IF result = UNDEF THEN @ ELSE result], "none")

\* A zend_async_waker_new that raises leaves the coroutine's slot empty.
FailedNew == NullWaker

\* curl_async_perform up to ZEND_ASYNC_SUSPEND().  setup_ok: the multi
\* handle is non-null after the lazy curl_async_setup(); the call never looks
\* at it.  When the setup failed curl_multi_event_list is NULL as well, and
\* starting the curl_event (curl_async_event_start) writes through it: the
\* process faults there, or the write goes through and the call suspends.
curl_async_perform(coroutine, setup_ok, fail) ==
    LET w == zend_async_waker_new
    IN
    /\ adapter' = "curl_perform"
    /\ UNCHANGED <<ufds, args, rfds, wfds, efds, aread, awrite, aexcept, res,
                   numfds, bridge, ticks, cancelled, failure, timedOut, errno>>
    /\ IF ~coroutine THEN
            /\ ret' = CURLE_FAILED_INIT /\ pc' = "returned"
            /\ UNCHANGED <<waker, events, exception>>
       ELSE IF fail.kind = "waker" THEN
            /\ ret' = CURLE_FAILED_INIT /\ pc' = "returned"
            /\ exception' = "other"
            /\ waker' = FailedNew
            /\ UNCHANGED events
       ELSE IF fail.kind \in {"ctor", "link"} THEN
            /\ ret' = CURLE_FAILED_INIT /\ pc' = "returned"
            /\ exception' = "other"
            /\ waker' = zend_async_waker_destroy(w)
            /\ events' = IF fail.kind = "link" THEN StopAll([i \in {0} |-> NewEvent({})])
                         ELSE events
       ELSE
            /\ waker' = w
            /\ events' = [i \in {0} |-> NewEvent({})]
            /\ IF setup_ok THEN pc' = "suspended"
               ELSE pc' \in {"crashed", "suspended"}
            /\ UNCHANGED <<exception, ret>>

CurlPerformCall ==
    /\ pc = "idle"
    /\ \E coroutine, setup_ok \in BOOLEAN : \E fail \in SetupFails({0}) :
          curl_async_perform(coroutine, setup_ok, fail)
    /\ UNCHANGED <<hvars, cvars, rvars>>

\* The drain notifies the curl_event with the status code of the DONE
\* message, or the event is notified with a failure.
CurlEventNotify ==
    /\ pc = "suspended" /\ adapter = "curl_perform"
    /\ MayFire(0)
    /\ \E n \in {[result |-> ZLong(CURLE_OK), exc |-> "none"],
                  [result |-> ZLong(CURLE_COULDNT_CONNECT), exc |-> "none"],
                  [result |-> UNDEF, exc |-> "other"]} :
          waker' = zend_async_waker_callback_resolve(waker, n.result, n.exc)
    /\ events' = [events EXCEPT ![0].fires = @ + 1]
    /\ ticks' = 0
    /\ UNCHANGED <<pc, adapter, exception, errno, ret, ufds, args, rfds, wfds, efds,
                   aread, awrite, aexcept, res, numfds, bridge, cancelled, failure, timedOut>>
    /\ UNCHANGED <<hvars, cvars, rvars>>

\* curl_async_perform from the return of ZEND_ASYNC_SUSPEND() to its return
CurlPerformResume ==
    /\ pc = "suspended" /\ adapter = "curl_perform" /\ waker.queued
    /\ pc' = "returned"
    /\ failure' = waker.error
    /\ exception' = waker.error
    /\ ret' = IF waker.error # "none" THEN CURLE_ABORTED_BY_CALLBACK
              ELSE IF waker.alive /\ waker.result.type = "LONG" THEN waker.result.lval
              ELSE CURLE_OK
    /\ waker' = zend_async_waker_destroy(waker)
    /\ events' = StopAll(events)
    /\ UNCHANGED <<adapter, errno, ufds, args, rfds, wfds, efds, aread, awrite,
                   aexcept, res, numfds, bridge, ticks, cancelled, timedOut>>
    /\ UNCHANGED <<hvars, cvars, rvars>>

\* HashTable poll_list (zend_hash_init at curl_async_multi_event_ctor): the
\* slots in use, in insertion order, each [h: the key, ptr: the socket event
\* (its index in socket_events)].  nNumUsed counts the slots, deleted ones
\* included; nNumOfElements counts the entries.
DeletedSlot == [h |-> -1, ptr |-> 0]
nNumUsed(ht) == Len(ht)
nNumOfElements(ht) == Cardinality({i \in DOMAIN ht : ht[i] # DeletedSlot})
\* the pointer stored under key h, 0 (NULL) when there is none
zend_hash_index_find_ptr(ht, h) ==
    IF \E i \in DOMAIN ht : ht[i].h = h
    THEN ht[CHOOSE i \in DOMAIN ht : ht[i].h = h].ptr
    ELSE 0
zend_hash_index_add_ptr(ht, h, ptr) == Append(ht, [h |-> h, ptr |-> ptr])
\* deleting the entry of the last slot releases it and the deleted slots
\* before it
RECURSIVE TrimDeleted(_)
TrimDeleted(ht) ==
    IF ht # << >> /\ ht[Len(ht)] = DeletedSlot
    THEN TrimDeleted(SubSeq(ht, 1, Len(ht) - 1))
    ELSE ht
\* the table has no destructor (pDestructor NULL): the pointer is dropped
zend_hash_index_del(ht, h) ==
    TrimDeleted([i \in DOMAIN ht |-> IF ht[i].h = h THEN DeletedSlot ELSE ht[i]])

\* curl_async_multi_event_init: false when the context cannot be created
curl_async_multi_event_init(ok) ==
    IF ok THEN [present |-> TRUE, poll_list |-> << >>, timer |-> 0] ELSE NoBridge

\* curl_async_select up to ZEND_ASYNC_SUSPEND()
curl_async_select(timeout_ms, init_ok, coroutine, fail) ==
    LET b == IF bridge.present THEN bridge ELSE curl_async_multi_event_init(init_ok)
        w == zend_async_waker_new_with_timeout(timeout_ms)
    IN
    /\ adapter' = "curl_select"
    /\ args' = [NoArgs EXCEPT !.timeout = timeout_ms]
    /\ bridge' = b
    /\ UNCHANGED <<ufds, rfds, wfds, efds, aread, awrite, aexcept, res,
                   ticks, cancelled, failure, timedOut, errno>>
    /\ IF ~b.present \/ ~coroutine THEN
            /\ ret' = CURLM_INTERNAL_ERROR /\ pc' = "returned"
            /\ UNCHANGED <<waker, events, exception, numfds>>
       ELSE IF fail.kind = "waker" THEN
            \* finally: without destroying the waker
            /\ ret' = CURLM_INTERNAL_ERROR /\ pc' = "returned"
            /\ exception' = "other"
            /\ waker' = FailedNew
            /\ numfds' = nNumUsed(b.poll_list)
            /\ UNCHANGED events
       ELSE IF fail.kind = "link" THEN
            /\ ret' = CURLM_INTERNAL_ERROR /\ pc' = "returned"
            /\ exception' = "other"
            /\ waker' = w
            /\ numfds' = nNumUsed(b.poll_list)
            /\ UNCHANGED events
       ELSE
            /\ waker' = w
            /\ events' = [i \in {0} |-> NewEvent({})]
            /\ pc' = "suspended"
            /\ UNCHANGED <<exception, ret, numfds>>

CurlSelectCall ==
    /\ pc = "idle"
    /\ \E timeout_ms \in TimeoutMenu : \E init_ok \in BOOLEAN :
       \E coroutine \in BOOLEAN :
       \E fail \in SetupFails({0}) \ {[kind |-> "ctor", at |-> 0]} :
          curl_async_select(timeout_ms, init_ok, coroutine, fail)
    /\ UNCHANGED <<hvars, cvars, rvars>>

\* The bridge context notifies its subscribers (no value, no failure).
CurlMultiNotify ==
    /\ pc = "suspended" /\ adapter = "curl_select"
    /\ MayFire(0)
    /\ waker' = zend_async_waker_callback_resolve(waker, UNDEF, "none")
    /\ events' = [events EXCEPT ![0].fires = @ + 1]
    /\ ticks' = 0
    /\ UNCHANGED <<pc, adapter, exception, errno, ret, ufds, args, rfds, wfds, efds,
                   aread, awrite, aexcept, res, numfds, bridge, cancelled, failure, timedOut>>
    /\ UNCHANGED <<hvars, cvars, rvars>>

\* curl_async_select from the return of ZEND_ASYNC_SUSPEND() to its return:
\* a timeout failure is cleared and is a success; the waker is left alone.
CurlSelectResume ==
    /\ pc = "suspended" /\ adapter = "curl_select" /\ waker.queued
    /\ pc' = "returned"
    /\ failure' = waker.error
    /\ IF waker.error \in {"none", "timeout"} THEN
            /\ exception' = "none"
            /\ ret' = CURLM_OK
       ELSE
            /\ exception' = waker.error
            /\ ret' = CURLM_INTERNAL_ERROR
    /\ numfds' = nNumUsed(bridge.poll_list)
    /\ UNCHANGED <<adapter, waker, events, errno, ufds, args, rfds, wfds, efds, aread,
                   awrite, aexcept, res, bridge, ticks, cancelled, timedOut>>
    /\ UNCHANGED <<hvars, cvars, rvars>>

\* ----------------------------------------------------------------- reactor
\* The timer linked by zend_async_waker_new_with_timeout expires: the
\* coroutine is resumed with a timeout failure.
TimerFire ==
    /\ pc = "suspended" /\ waker.alive /\ waker.timer
    /\ waker' = ResumeCoroutine([waker EXCEPT !.timer = FALSE], "timeout")
    /\ timedOut' = TRUE
    /\ ticks' = 0
    /\ UNCHANGED <<pc, adapter, events, exception, errno, ret, ufds, args, rfds,
                   wfds, efds, aread, awrite, aexcept, res, numfds, bridge, cancelled, failure>>
    /\ UNCHANGED <<hvars, cvars, rvars>>

\* The coroutine is cancelled while it is suspended.
Cancel ==
    /\ pc = "suspended" /\ waker.alive /\ ~cancelled
    /\ waker' = ResumeCoroutine(waker, "cancel")
    /\ cancelled' = TRUE
    /\ ticks' = 0
    /\ UNCHANGED <<pc, adapter, events, exception, errno, ret, ufds, args, rfds,
                   wfds, efds, aread, awrite, aexcept, res, numfds, bridge, timedOut, failure>>
    /\ UNCHANGED <<hvars, cvars, rvars>>

\* Another party resumes the coroutine without a failure.
ForeignResume ==
    /\ pc = "suspended" /\ waker.alive /\ ~waker.queued
    /\ waker' = ResumeCoroutine(waker, "none")
    /\ ticks' = 0
    /\ UNCHANGED <<pc, adapter, events, exception, errno, ret, ufds, args, rfds,
                   wfds, efds, aread, awrite, aexcept, res, numfds, bridge,
                   cancelled, failure, timedOut>>
    /\ UNCHANGED <<hvars, cvars, rvars>>

\* A reactor tick passes in which nothing resumes the coroutine.
IdleTick ==
    /\ pc = "suspended" /\ ~waker.queued /\ ticks < MaxTicks
    /\ ticks' = ticks + 1
    /\ UNCHANGED <<pc, adapter, waker, events, exception, errno, ret, ufds, args,
                   rfds, wfds, efds, aread, awrite, aexcept, res, numfds, bridge,
                   cancelled, failure, timedOut>>
    /\ UNCHANGED <<hvars, cvars, rvars>>

Next ==
    \/ PollCall
    \/ PollCallback
    \/ PollResume
    \/ SelectCall
    \/ SelectCallback
    \/ SelectResume
    \/ GetaddrinfoCall
    \/ DnsCallback
    \/ GetaddrinfoResume
    \/ GethostbyaddrCall
    \/ DnsNameinfoCallback
    \/ GethostbyaddrResume
    \/ CurlPerformCall
    \/ CurlEventNotify
    \/ CurlPerformResume
    \/ CurlSelectCall
    \/ CurlMultiNotify
    \/ CurlSelectResume
    \/ TimerFire
    \/ Cancel
    \/ ForeignResume
    \/ IdleTick

Spec == Init /\ [][Next]_vars

\* ------------------------------------------------- per-coroutine hostent
\* The adapter variables, which the hostent operations leave alone.
avars == <<pc, adapter, waker, events, exception, errno, ret, ufds, args,
           rfds, wfds, efds, aread, awrite, aexcept, res, numfds, bridge,
           ticks, cancelled, failure, timedOut>>

\* php_network_gethostbyname_async.  lookup is how the inner
\* php_network_getaddrinfo_async call ended: "fail" (non-zero), "null" (no
\* result), "inet6" (first result not AF_INET) or "inet".  The slot found in
\* the context is read after ZEND_ASYNC_INTERNAL_CONTEXT_UNSET has removed
\* it: still_ptr says whether that read still sees an IS_PTR zval.
php_network_gethostbyname_async(name_null, coroutine, lookup, still_ptr) ==
    IF name_null \/ ~coroutine \/ lookup # "inet" THEN
        /\ hostent' = 0
        /\ UNCHANGED <<coroutine_state, internal_context, end_callbacks,
                       pending_callbacks, allocated, live_hostents, frees>>
    ELSE
        LET found == internal_context # 0
            is_ptr == found /\ still_ptr
            need_dispose_callback == ~is_ptr
            h == allocated + 1
        IN
        \* hostent_free(Z_PTR_P(hostent_zval))
        /\ frees' = IF is_ptr THEN [frees EXCEPT ![internal_context] = @ + 1]
                     ELSE frees
        /\ live_hostents' = (IF is_ptr THEN live_hostents \ {internal_context}
                              ELSE live_hostents) \cup {h}
        /\ allocated' = h
        /\ internal_context' = h
        /\ end_callbacks' = IF need_dispose_callback THEN end_callbacks + 1
                             ELSE end_callbacks
        /\ hostent' = h
        /\ UNCHANGED <<coroutine_state, pending_callbacks>>

GethostbynameCall ==
    /\ coroutine_state = "running" /\ allocated < MaxHostentCalls
    /\ \E name_null \in BOOLEAN : \E coroutine \in BOOLEAN :
       \E lookup \in {"fail", "null", "inet6", "inet"} :
       \E still_ptr \in BOOLEAN :
          php_network_gethostbyname_async(name_null, coroutine, lookup, still_ptr)
    /\ UNCHANGED <<avars, cvars, rvars>>

\* The coroutine finishes: the callbacks on coroutine->event are invoked.
CoroutineEnd ==
    /\ coroutine_state = "running"
    /\ coroutine_state' = "ending"
    /\ pending_callbacks' = end_callbacks
    /\ UNCHANGED <<internal_context, end_callbacks, allocated, live_hostents,
                   frees, hostent>>
    /\ UNCHANGED <<avars, cvars, rvars>>

\* hostent_free_callback, one invocation
hostent_free_callback ==
    /\ coroutine_state = "ending" /\ pending_callbacks > 0
    /\ pending_callbacks' = pending_callbacks - 1
    /\ IF internal_context # 0 THEN
            /\ frees' = [frees EXCEPT ![internal_context] = @ + 1]
            /\ live_hostents' = live_hostents \ {internal_context}
            /\ internal_context' = 0
       ELSE UNCHANGED <<frees, live_hostents, internal_context>>
    /\ UNCHANGED <<coroutine_state, end_callbacks, allocated, hostent>>
    /\ UNCHANGED <<avars, cvars, rvars>>

\* Every end callback has run.
CoroutineEnded ==
    /\ coroutine_state = "ending" /\ pending_callbacks = 0
    /\ coroutine_state' = "ended"
    /\ UNCHANGED <<internal_context, end_callbacks, pending_callbacks, allocated,
                   live_hostents, frees, hostent>>
    /\ UNCHANGED <<avars, cvars, rvars>>

HostentNext ==
    \/ GethostbynameCall
    \/ CoroutineEnd
    \/ hostent_free_callback
    \/ CoroutineEnded

SpecHostent == Init /\ [][HostentNext]_vars

\* ------------------------------------------- socket callbacks of the engine
\* what the engine passes to a socket callback, and the reactor bits the
\* callback derives from it
WhatMenu == {"IN", "OUT", "INOUT", "REMOVE"}
WhatEvents(what) ==
    (IF what \in {"IN", "INOUT"} THEN {"READABLE"} ELSE {})
    \cup (IF what \in {"OUT", "INOUT"} THEN {"WRITABLE"} ELSE {})
\* what may fail inside the callback: making the socket event, registering
\* the dispatcher on it, starting it
SocketFails == {"none", "event", "callback", "start"}

\* ZEND_ASYNC_NEW_SOCKET_EVENT(socket_fd, events); failed: the reactor
\* invoked its dispatcher with a failure
NewSocketEvent(socket_fd, bits) ==
    [socket |-> socket_fd, events |-> bits, triggered_events |-> {},
     started |-> FALSE, disposed |-> FALSE, linked |-> FALSE,
     failed |-> FALSE, exception_handled |-> FALSE]

\* -------------------------------------- thread-local state of the curl bridge
\* How a curl_async_setup that has work to do ends: "ok", or the step that
\* fails (curl_multi_init, a curl_multi_setopt, the allocation of the list).
SetupOutcomes == {"ok", "init", "setopt", "alloc"}

\* curl_async_setup
curl_async_setup(tl, outcome) ==
    IF tl.curl_multi_handle THEN tl
    ELSE IF outcome = "init" THEN tl
    ELSE IF outcome \in {"setopt", "alloc"} THEN [tl EXCEPT !.curl_multi_handle = FALSE]
    ELSE [curl_multi_handle |-> TRUE, curl_multi_event_list |-> TRUE, timer |-> 0]

\* event->stop, event->dispose of a reactor event: dispose stops an event
\* that is still started.
StopEvent(evs, e) == [evs EXCEPT ![e].started = FALSE]
DisposeEvent(evs, e) == [evs EXCEPT ![e].started = FALSE, ![e].disposed = TRUE]

\* A shutdown that forgets the timer without disposing it.
curl_async_shutdown_keep_timer(tg) ==
    [tl |-> [curl_multi_handle |-> FALSE, curl_multi_event_list |-> FALSE, timer |-> 0],
     timers |-> tg.timers]

\* curl_async_shutdown on tg = [tl, timers]
curl_async_shutdown(tg) ==
    [tl |-> [curl_multi_handle |-> FALSE, curl_multi_event_list |-> FALSE, timer |-> 0],
     timers |-> IF tg.tl.timer # 0 THEN DisposeEvent(tg.timers, tg.tl.timer)
                ELSE tg.timers]

\* what may fail in curl_timer_cb: making the timer event (none made, or
\* one made with an exception raised), registering the dispatcher on it,
\* starting it
TimerFails == {"none", "event", "exception", "callback", "start"}
TimeoutMsMenu == {-1, 0, 100}

\* A timer callback that forgets the previous timer without disposing it
\* when the timeout is not negative.
curl_timer_cb_keep_previous(tg, timeout_ms, fail) ==
    LET new == Len(tg.timers) + 1
    IN
    IF timeout_ms < 0 THEN
        IF tg.tl.timer # 0
        THEN [tl |-> [tg.tl EXCEPT !.timer = 0],
              timers |-> DisposeEvent(StopEvent(tg.timers, tg.tl.timer), tg.tl.timer)]
        ELSE tg
    ELSE IF fail = "event" THEN [tg EXCEPT !.tl.timer = 0]
    ELSE IF fail = "exception" THEN
        [tl |-> [tg.tl EXCEPT !.timer = new],
         timers |-> Append(tg.timers, [started |-> FALSE, disposed |-> FALSE])]
    ELSE IF fail \in {"callback", "start"} THEN
        [tl |-> [tg.tl EXCEPT !.timer = 0],
         timers |-> Append(tg.timers, [started |-> FALSE, disposed |-> TRUE])]
    ELSE
        [tl |-> [tg.tl EXCEPT !.timer = new],
         timers |-> Append(tg.timers, [started |-> TRUE, disposed |-> FALSE])]

\* curl_timer_cb on tg = [tl, timers]
curl_timer_cb(tg, timeout_ms, fail) ==
    LET dropped == IF tg.tl.timer # 0
                   THEN [tl |-> [tg.tl EXCEPT !.timer = 0],
                         timers |-> DisposeEvent(StopEvent(tg.timers, tg.tl.timer),
                                                 tg.tl.timer)]
                   ELSE tg
        new == Len(dropped.timers) + 1
    IN
    IF timeout_ms < 0 THEN dropped
    ELSE IF fail = "event" THEN dropped
    ELSE IF fail = "exception" THEN
        \* the timer event was made and an exception is raised: it is kept
        [tl |-> [dropped.tl EXCEPT !.timer = new],
         timers |-> Append(dropped.timers, [started |-> FALSE, disposed |-> FALSE])]
    ELSE IF fail \in {"callback", "start"} THEN
        \* fail: the new timer is stopped and disposed
        [dropped EXCEPT !.timers = Append(@, [started |-> FALSE, disposed |-> TRUE])]
    ELSE
        [tl |-> [dropped.tl EXCEPT !.timer = new],
         timers |-> Append(dropped.timers, [started |-> TRUE, disposed |-> FALSE])]

Globals == [tl |-> thread_locals, timers |-> timer_events]

\* A call of curl_async_setup (from curl_async_perform when the multi
\* handle is NULL, or from the module's start-up).
SetupCall ==
    /\ \E outcome \in SetupOutcomes :
          thread_locals' = curl_async_setup(thread_locals, outcome)
    /\ UNCHANGED <<socket_events, socket_slots, timer_events>>
    /\ UNCHANGED <<avars, hvars, cvars>>

\* curl_async_shutdown runs when the thread shuts down: no transfer is in
\* progress.
ShutdownCall ==
    /\ curl_multi_event_list = {}
    /\ LET tg == curl_async_shutdown(Globals)
       IN thread_locals' = tg.tl /\ timer_events' = tg.timers
    /\ UNCHANGED <<socket_events, socket_slots>>
    /\ UNCHANGED <<avars, hvars, cvars>>

\* Inside curl_multi_socket_action (called by curl_async_event_start,
\* curl_poll_callback, or reentrantly by timer_callback, the dispatcher of
\* the global timer) the engine calls curl_timer_cb.
CurlTimerCb ==
    /\ thread_locals.curl_multi_handle
    /\ \E timeout_ms \in TimeoutMsMenu : \E fail \in TimerFails :
          /\ (timeout_ms >= 0 /\ fail # "event") => Len(timer_events) < MaxTimers
          /\ LET tg == curl_timer_cb(Globals, timeout_ms, fail)
             IN thread_locals' = tg.tl /\ timer_events' = tg.timers
    /\ UNCHANGED <<socket_events, socket_slots>>
    /\ UNCHANGED <<avars, hvars, cvars>>

\* ------------------------------- curl_async_perform on a shared multi handle
\* Several coroutines, each with an easy handle of its own (coroutine h uses
\* handle h), run curl_async_perform on the thread-local curl_multi_handle.
Handles == 1..MaxHandles
\* status codes a DONE message may carry
DoneCodes == {CURLE_OK, CURLE_COULDNT_CONNECT}

\* A lookup that disregards the key and yields any started curl_event.
find_curl_event_any(list, easy_handle) ==
    IF list = {} THEN 0 ELSE CHOOSE e \in list : TRUE

\* zend_hash_index_find_ptr(curl_multi_event_list, easy_handle): the
\* curl_event started for the handle (named by its handle), 0 when absent
find_curl_event(list, easy_handle) ==
    IF easy_handle \in list THEN easy_handle ELSE 0

\* The coroutine a notification of a curl_event resumes.  Coroutine 0 is the
\* one of the adapter call (pc, waker); coroutine h > 0 runs
\* curl_async_perform on easy handle h.
callback_current_coroutine(curl_event) == 0

\* zend_async_resume_when(coroutine, &curl_event->base, ...): the callback
\* attached to the curl_event of handle h belongs to the coroutine that made
\* the call.
callback_coroutine(curl_event) == curl_event

\* The operations below work on st = [wakers, list, multi, slots, sockets]:
\* the waker of each coroutine, curl_multi_event_list, the easy handles added
\* to the multi handle, the engine's socket records and the socket events.
SharedSt ==
    [wakers |-> [c \in 0..MaxHandles |-> IF c = 0 THEN waker ELSE performs[c].waker],
     list |-> curl_multi_event_list,
     multi |-> multi_handles,
     slots |-> socket_slots,
     sockets |-> socket_events]

\* curl_socket_cb(curl, socket_fd, what, user_p, socket_poll), socket_poll
\* being the pointer the engine holds for the socket
curl_socket_cb(st, curl, socket_fd, what, fail) ==
    LET curl_event == find_curl_event(st.list, curl)
        socket_poll == st.slots[socket_fd].ptr
        new == Len(st.sockets) + 1
        socket_event == NewSocketEvent(socket_fd, WhatEvents(what))
    IN
    IF curl_event = 0 THEN st
    ELSE IF what = "REMOVE" THEN
        IF socket_poll # 0
        THEN [st EXCEPT !.sockets = DisposeEvent(StopEvent(@, socket_poll), socket_poll)]
        ELSE st
    ELSE IF socket_poll = 0 THEN
        IF fail = "event" THEN st
        ELSE IF fail = "callback" THEN
            [st EXCEPT !.sockets = Append(@, socket_event)]
        ELSE IF fail = "start" THEN
            [st EXCEPT !.sockets = Append(@, [socket_event EXCEPT !.disposed = TRUE])]
        ELSE
            \* curl_multi_assign(curl_multi_handle, socket_fd, socket_event)
            [st EXCEPT !.sockets = Append(@, [socket_event EXCEPT !.started = TRUE]),
                       !.slots[socket_fd].ptr = new]
    ELSE st

\* curl_multi_remove_handle: the engine issues REMOVE for the sockets of the
\* transfer and forgets them.
RECURSIVE RemoveSockets(_, _, _)
RemoveSockets(st, h, fds) ==
    IF fds = {} THEN st
    ELSE
        LET fd == CHOOSE x \in fds : TRUE
            after == IF st.slots[fd].curl = h
                     THEN [curl_socket_cb(st, h, fd, "REMOVE", "none")
                              EXCEPT !.slots[fd] = [curl |-> 0, ptr |-> 0]]
                     ELSE st
        IN RemoveSockets(after, h, fds \ {fd})

curl_multi_remove_handle(st, h) ==
    IF h \notin st.multi THEN st
    ELSE [RemoveSockets(st, h, DOMAIN st.slots) EXCEPT !.multi = @ \ {h}]

\* curl_async_event_stop; an event that is not in the list is closed
curl_async_event_stop(st, curl_event) ==
    IF curl_event \notin st.list THEN st
    ELSE curl_multi_remove_handle([st EXCEPT !.list = @ \ {curl_event}], curl_event)

\* process_curl_completed_handles: every DONE message of the queue, in
\* order.
RECURSIVE process_curl_completed_handles(_, _)
process_curl_completed_handles(msgs, st) ==
    IF msgs = << >> THEN st
    ELSE
        LET msg == Head(msgs)
            removed == curl_multi_remove_handle(st, msg.easy_handle)
            curl_event == find_curl_event(removed.list, msg.easy_handle)
        IN
        IF curl_event = 0 THEN process_curl_completed_handles(Tail(msgs), removed)
        ELSE process_curl_completed_handles(Tail(msgs),
                curl_async_event_stop(
                    [removed EXCEPT
                        \* ZEND_ASYNC_CALLBACKS_NOTIFY(&curl_event->base, &result, NULL)
                        !.wakers[callback_coroutine(curl_event)] =
                            zend_async_waker_callback_resolve(@, ZLong(msg.result), "none")],
                    \* curl_event->base.stop
                    curl_event))

\* The state st put back into the variables; the wakers of the coroutines
\* in curl_async_perform go into performs.
SharedUpdate(st, pf) ==
    /\ performs' = [h \in Handles |-> [pf[h] EXCEPT !.waker = st.wakers[h]]]
    /\ waker' = st.wakers[0]
    /\ curl_multi_event_list' = st.list
    /\ multi_handles' = st.multi
    /\ socket_slots' = st.slots
    /\ socket_events' = st.sockets
    /\ UNCHANGED <<pc, adapter, events, exception, errno, ret, ufds, args, rfds,
                   wfds, efds, aread, awrite, aexcept, res, numfds, bridge, ticks,
                   cancelled, failure, timedOut>>
    /\ UNCHANGED hvars

\* curl_async_perform of coroutine h up to ZEND_ASYNC_SUSPEND(), nothing
\* failing: the multi handle is set up if it was not, and the event is
\* started: it enters curl_multi_event_list and the handle is added to the
\* multi handle.
PerformStart(h) ==
    /\ performs[h].pc = "idle"
    /\ thread_locals' = curl_async_setup(thread_locals, "ok")
    /\ SharedUpdate([SharedSt EXCEPT !.wakers[h] = zend_async_waker_new,
                                     !.list = @ \cup {h},
                                     !.multi = @ \cup {h}],
                    [performs EXCEPT ![h].pc = "suspended"])
    /\ UNCHANGED <<messages, done_code, timer_events>>

\* The engine, inside curl_multi_socket_action, completes the transfer of
\* a handle and queues its DONE message.
TransferDone(h) ==
    /\ h \in multi_handles /\ done_code[h] = -1
    /\ \E code \in DoneCodes :
          /\ messages' = Append(messages, [easy_handle |-> h, result |-> code])
          /\ done_code' = [done_code EXCEPT ![h] = code]
    /\ UNCHANGED <<performs, curl_multi_event_list, multi_handles>>
    /\ UNCHANGED <<avars, hvars, rvars>>

\* The engine, inside curl_multi_socket_action, tells the socket callback
\* which socket of the transfer of handle h to watch, or to drop.
EngineSocket(h) ==
    /\ h \in multi_handles /\ done_code[h] = -1
    /\ \E socket_fd \in Fds : \E what \in WhatMenu : \E fail \in SocketFails :
          LET st == curl_socket_cb(SharedSt, h, socket_fd, what, fail)
          IN
          /\ IF what = "REMOVE" THEN socket_slots[socket_fd].curl = h
             ELSE socket_slots[socket_fd].curl \in {0, h}
          /\ Len(st.sockets) <= MaxSlots
          /\ SharedUpdate(
                [st EXCEPT !.slots[socket_fd] =
                    IF what = "REMOVE" THEN [curl |-> 0, ptr |-> 0]
                    ELSE [@ EXCEPT !.curl = h]],
                performs)
    /\ UNCHANGED <<messages, done_code, thread_locals, timer_events>>

\* curl_poll_callback / timer_callback: the socket or timer dispatcher
\* drains the queue of completed handles.
Dispatcher ==
    /\ messages # << >>
    /\ SharedUpdate(process_curl_completed_handles(messages, SharedSt), performs)
    /\ messages' = << >>
    /\ UNCHANGED <<done_code, thread_locals, timer_events>>

\* Coroutine h is cancelled while it is suspended in curl_async_perform.
PerformCancel(h) ==
    /\ performs[h].pc = "suspended" /\ performs[h].waker.error = "none"
    /\ performs' = [performs EXCEPT ![h].waker = ResumeCoroutine(@, "cancel")]
    /\ UNCHANGED <<curl_multi_event_list, multi_handles, messages, done_code>>
    /\ UNCHANGED <<avars, hvars, rvars>>

\* curl_async_perform of coroutine h from the return of ZEND_ASYNC_SUSPEND()
\* to its return; destroying the waker disposes the curl_event, which stops
\* it if it is not closed.
PerformResume(h) ==
    LET w == performs[h].waker
    IN
    /\ performs[h].pc = "suspended" /\ w.queued
    /\ SharedUpdate(
            curl_async_event_stop(
                [SharedSt EXCEPT !.wakers[h] = zend_async_waker_destroy(w)], h),
            [performs EXCEPT
                ![h].pc = "returned",
                ![h].failure = w.error,
                ![h].ret = IF w.error # "none" THEN CURLE_ABORTED_BY_CALLBACK
                           ELSE IF w.result.type = "LONG" THEN w.result.lval
                           ELSE CURLE_OK])
    /\ UNCHANGED <<messages, done_code, thread_locals, timer_events>>

SharedNext ==
    \/ \E h \in Handles : PerformStart(h)
    \/ \E h \in Handles : TransferDone(h)
    \/ Dispatcher
    \/ \E h \in Handles : PerformCancel(h)
    \/ \E h \in Handles : PerformResume(h)

SpecShared == Init /\ [][SharedNext]_vars

\* ------------------------------- two coroutines on one and the same handle
\* Coroutines 1..MaxHandles call curl_async_perform with the same easy
\* handle, SameCurl.  The curl_event of coroutine c is named c; all of them
\* have curl_event->curl = SameCurl, so curl_multi_event_list, keyed by the
\* handle, holds at most one of them.
SameCurl == 1

\* ZEND_ASYNC_EVENT_IS_CLOSED of the curl_event of coroutine c: it was
\* stopped by the drain that notified it, or by the disposal at the end of
\* the call
Closed(c) ==
    performs[c].pc # "suspended" \/ performs[c].waker.result.type = "LONG"

\* the curl_events that were started and have not been stopped
LiveCurlEvents == {c \in Handles : performs[c].pc = "suspended" /\ ~Closed(c)}

\* curl_async_event_stop of the curl_event of coroutine c, which is not
\* closed: the key curl_event->curl is deleted from the list whichever event
\* it holds, and the handle is removed from the multi handle.
curl_async_event_stop_same(st, c) ==
    curl_multi_remove_handle([st EXCEPT !.list = {}], SameCurl)

\* curl_async_perform of coroutine c up to ZEND_ASYNC_SUSPEND();
\* curl_async_event_start: zend_hash_index_update_ptr stores the event under
\* its handle in place of the one stored there, and curl_multi_add_handle of
\* a handle that is attached already attaches nothing.
PerformStartSame(c) ==
    /\ performs[c].pc = "idle"
    /\ thread_locals' = curl_async_setup(thread_locals, "ok")
    /\ SharedUpdate([SharedSt EXCEPT !.wakers[c] = zend_async_waker_new,
                                     !.list = {c},
                                     !.multi = @ \cup {SameCurl}],
                    [performs EXCEPT ![c].pc = "suspended"])
    /\ UNCHANGED <<messages, done_code, timer_events>>

\* process_curl_completed_handles, the DONE messages being those of
\* SameCurl: the event the list holds under the handle is notified and
\* stopped.
RECURSIVE process_curl_completed_handles_same(_, _)
process_curl_completed_handles_same(msgs, st) ==
    IF msgs = << >> THEN st
    ELSE
        LET msg == Head(msgs)
            removed == curl_multi_remove_handle(st, msg.easy_handle)
        IN
        IF removed.list = {} THEN process_curl_completed_handles_same(Tail(msgs), removed)
        ELSE
            LET curl_event == CHOOSE c \in removed.list : TRUE
            IN process_curl_completed_handles_same(Tail(msgs),
                  curl_async_event_stop_same(
                      [removed EXCEPT
                          !.wakers[curl_event] =
                              zend_async_waker_callback_resolve(@, ZLong(msg.result), "none")],
                      curl_event))

\* curl_poll_callback / timer_callback
DispatcherSame ==
    /\ messages # << >>
    /\ SharedUpdate(process_curl_completed_handles_same(messages, SharedSt), performs)
    /\ messages' = << >>
    /\ UNCHANGED <<done_code, thread_locals, timer_events>>

\* curl_async_perform of coroutine c from the return of
\* ZEND_ASYNC_SUSPEND() to its return: destroying the waker disposes the
\* curl_event, which stops it if it is not closed.
PerformResumeSame(c) ==
    LET w == performs[c].waker
        st == [SharedSt EXCEPT !.wakers[c] = zend_async_waker_destroy(w)]
    IN
    /\ performs[c].pc = "suspended" /\ w.queued
    /\ SharedUpdate(
            IF Closed(c) THEN st ELSE curl_async_event_stop_same(st, c),
            [performs EXCEPT
                ![c].pc = "returned",
                ![c].failure = w.error,
                ![c].ret = IF w.error # "none" THEN CURLE_ABORTED_BY_CALLBACK
                           ELSE IF w.result.type = "LONG" THEN w.result.lval
                           ELSE CURLE_OK])
    /\ UNCHANGED <<messages, done_code, thread_locals, timer_events>>

SameHandleNext ==
    \/ \E c \in Handles : PerformStartSame(c)
    \/ TransferDone(SameCurl)
    \/ DispatcherSame
    \/ \E c \in Handles : PerformCancel(c)
    \/ \E c \in Handles : PerformResumeSame(c)

SpecSameHandle == Init /\ [][SameHandleNext]_vars

\* The outcomes of the dereference of a null curl_event.
NullDerefOutcomes == {"crash", "no effect"}

\* process_curl_completed_handles of the earlier variant of the file (lines
\* 164-187): a message whose curl_event is found is passed over; one whose
\* curl_event is not found goes on to write through the null pointer.  The
\* result carries whether the process crashed there.
RECURSIVE process_curl_completed_handles_earlier(_, _, _)
process_curl_completed_handles_earlier(msgs, st, ub) ==
    IF msgs = << >> THEN [st |-> st, crashed |-> FALSE]
    ELSE
        LET msg == Head(msgs)
            removed == curl_multi_remove_handle(st, msg.easy_handle)
            curl_event == find_curl_event(removed.list, msg.easy_handle)
        IN
        IF curl_event # 0
        THEN process_curl_completed_handles_earlier(Tail(msgs), removed, ub)
        ELSE IF ub = "crash" THEN [st |-> removed, crashed |-> TRUE]
        ELSE process_curl_completed_handles_earlier(Tail(msgs), removed, ub)

\* curl_poll_callback / timer_callback of the earlier variant.
DispatcherEarlier ==
    /\ messages # << >>
    /\ \A h \in Handles : performs[h].pc # "crashed"
    /\ \E ub \in NullDerefOutcomes :
          LET out == process_curl_completed_handles_earlier(messages, SharedSt, ub)
          IN SharedUpdate(out.st,
                IF out.crashed
                THEN [h \in Handles |-> [performs[h] EXCEPT !.pc = "crashed"]]
                ELSE performs)
    /\ messages' = << >>
    /\ UNCHANGED <<done_code, thread_locals, timer_events>>

\* curl_async_perform of the earlier variant (lines 299-346) from the
\* return of ZEND_ASYNC_SUSPEND() to its return: the waker is left alone.
PerformResumeEarlier(h) ==
    LET w == performs[h].waker
    IN
    /\ performs[h].pc = "suspended" /\ w.queued
    /\ performs' = [performs EXCEPT
                ![h].pc = "returned",
                ![h].failure = w.error,
                ![h].ret = IF w.error # "none" THEN CURLE_ABORTED_BY_CALLBACK
                           ELSE IF w.result.type = "LONG" THEN w.result.lval
                           ELSE CURLE_OK]
    /\ UNCHANGED <<curl_multi_event_list, multi_handles, messages, done_code>>
    /\ UNCHANGED <<avars, hvars, rvars>>

\* The scheduler destroys the waker of a coroutine that returned from the
\* earlier curl_async_perform; the curl_event is disposed, which stops it.
WakerDestroyEarlier(h) ==
    /\ performs[h].pc = "returned" /\ performs[h].waker # NullWaker
    /\ SharedUpdate(
            curl_async_event_stop(
                [SharedSt EXCEPT !.wakers[h] = zend_async_waker_destroy(@)], h),
            performs)
    /\ UNCHANGED <<messages, done_code, thread_locals, timer_events>>

\* The engine completes a transfer, in a process that has not crashed.
TransferDoneEarlier(h) ==
    /\ performs[h].pc # "crashed"
    /\ TransferDone(h)

\* The single-request bridge of the earlier variant; a crashed process
\* takes no step.
EarlierNext ==
    \/ \E h \in Handles : PerformStart(h)
    \/ \E h \in Handles : TransferDoneEarlier(h)
    \/ DispatcherEarlier
    \/ \E h \in Handles : PerformCancel(h)
    \/ \E h \in Handles : PerformResumeEarlier(h)
    \/ \E h \in Handles : WakerDestroyEarlier(h)

SpecEarlier == Init /\ [][EarlierNext]_vars

\* timer_callback, the dispatcher of the global timer: inside its
\* curl_multi_socket_action the engine may call curl_timer_cb; then the
\* queue of completed handles is drained.
TimerCallback ==
    /\ thread_locals.timer # 0 /\ timer_events[thread_locals.timer].started
    /\ \E reenter \in BOOLEAN : \E timeout_ms \in TimeoutMsMenu : \E fail \in TimerFails :
          LET tg == IF reenter THEN curl_timer_cb(Globals, timeout_ms, fail) ELSE Globals
          IN /\ Len(tg.timers) <= MaxTimers
             /\ thread_locals' = tg.tl /\ timer_events' = tg.timers
    /\ SharedUpdate(process_curl_completed_handles(messages, SharedSt), performs)
    /\ messages' = << >>
    /\ UNCHANGED done_code

\* The thread-local state through set-up, shutdown and the timer callbacks
\* of the engine, with one coroutine in curl_async_perform on easy handle 1.
TimersNext ==
    \/ SetupCall
    \/ ShutdownCall
    \/ CurlTimerCb
    \/ TimerCallback
    \/ PerformStart(1)
    \/ TransferDone(1)
    \/ Dispatcher
    \/ PerformCancel(1)
    \/ PerformResume(1)

SpecTimers == Init /\ [][TimersNext]_vars

\* One coroutine in curl_async_perform on easy handle 1, with the socket
\* callbacks of the engine.
SingleNext ==
    \/ PerformStart(1)
    \/ EngineSocket(1)
    \/ TransferDone(1)
    \/ Dispatcher
    \/ PerformCancel(1)
    \/ PerformResume(1)

SpecSingle == Init /\ [][SingleNext]_vars

\* curl_poll_callback (lines 1046-1068) invoked by the reactor for the
\* started socket event e with the readiness trig or the failure exc: both
\* are handed to curl_multi_socket_action, the failure is not marked as
\* handled, and the queue of completed handles is drained.
CurlPollCallback ==
    \E e \in {x \in DOMAIN socket_events : socket_events[x].started} :
    \E trig \in SUBSET socket_events[e].events :
    \E exc \in {"none", "other"} :
        /\ SharedUpdate(
              process_curl_completed_handles(
                  messages,
                  [SharedSt EXCEPT !.sockets[e].triggered_events = trig,
                                   !.sockets[e].failed = @ \/ exc # "none"]),
              performs)
        /\ messages' = << >>
        /\ UNCHANGED <<done_code, thread_locals, timer_events>>

\* One coroutine in curl_async_perform on easy handle 1, with the socket
\* callbacks of the engine and the reactor invoking the socket dispatcher.
PollFailNext ==
    \/ PerformStart(1)
    \/ EngineSocket(1)
    \/ TransferDone(1)
    \/ CurlPollCallback
    \/ PerformCancel(1)
    \/ PerformResume(1)

SpecPollFail == Init /\ [][PollFailNext]_vars

\* ------------------------------------------- the kick of the event's start
\* What the engine does with the transfer inside the
\* curl_multi_socket_action(curl_multi_handle, CURL_SOCKET_TIMEOUT, 0, NULL)
\* of curl_async_event_start: it leaves it in progress (-1, as in done_code)
\* or completes it and queues its DONE message with a status code.
KickOutcomes == {-1} \cup DoneCodes

\* curl_async_perform of coroutine h up to ZEND_ASYNC_SUSPEND(), nothing
\* failing, with the kick of curl_async_event_start (lines 964-991): the
\* queue of completed handles is not read there.
PerformStartKick(h) ==
    /\ performs[h].pc = "idle"
    /\ thread_locals' = curl_async_setup(thread_locals, "ok")
    /\ SharedUpdate([SharedSt EXCEPT !.wakers[h] = zend_async_waker_new,
                                     !.list = @ \cup {h},
                                     !.multi = @ \cup {h}],
                    [performs EXCEPT ![h].pc = "suspended"])
    /\ \E kick \in KickOutcomes :
          IF kick = -1 THEN UNCHANGED <<messages, done_code>>
          ELSE /\ messages' = Append(messages, [easy_handle |-> h, result |-> kick])
               /\ done_code' = [done_code EXCEPT ![h] = kick]
    /\ UNCHANGED timer_events

\* Coroutines in curl_async_perform, each on its own easy handle: the start
\* of a curl_event with its kick, the timer callbacks of the engine, and the
\* reactor invoking the dispatcher of the global timer.
KickNext ==
    \/ \E h \in Handles : PerformStartKick(h)
    \/ \E h \in Handles : TransferDone(h)
    \/ CurlTimerCb
    \/ TimerCallback
    \/ \E h \in Handles : PerformResume(h)

SpecKick == Init /\ [][KickNext]_vars

\* The reactor invokes the dispatcher of every event that stays started,
\* and the scheduler runs every coroutine that stays queued.
SpecKickFair ==
    /\ SpecKick
    /\ WF_vars(TimerCallback)
    /\ \A h \in Handles : WF_vars(PerformResume(h))

\* A REMOVE that deletes the entry and notifies nobody.
multi_socket_cb_remove_silent(st, socket_fd) ==
    IF nNumUsed(st.poll_list) = 0
       \/ zend_hash_index_find_ptr(st.poll_list, socket_fd) = 0
    THEN st
    ELSE [st EXCEPT !.poll_list = zend_hash_index_del(@, socket_fd)]

\* multi_socket_cb, what == CURL_POLL_REMOVE (lines 1466-1485)
multi_socket_cb_remove(st, socket_fd) ==
    IF nNumUsed(st.poll_list) = 0
       \/ zend_hash_index_find_ptr(st.poll_list, socket_fd) = 0
    THEN st
    ELSE
        LET del == zend_hash_index_del(st.poll_list, socket_fd)
        IN [st EXCEPT !.poll_list = del,
                      \* ZEND_ASYNC_CALLBACKS_NOTIFY(&async_event->base, NULL, NULL)
                      !.notified = @ \/ nNumUsed(del) = 0]

\* A watch that makes a socket event whether the fd has an entry or not.
multi_socket_cb_watch_always_new(st, socket_fd, what, fail) ==
    LET ptr == Len(st.socket_events) + 1
        new == NewSocketEvent(socket_fd, WhatEvents(what))
    IN
    IF fail = "event" THEN st
    ELSE IF fail \in {"callback", "start"} THEN
        [st EXCEPT !.socket_events = Append(@, new),
                   !.poll_list = zend_hash_index_del(
                        zend_hash_index_add_ptr(@, socket_fd, ptr), socket_fd)]
    ELSE
        [st EXCEPT !.socket_events = Append(@, [new EXCEPT !.started = TRUE]),
                   !.poll_list = zend_hash_index_add_ptr(@, socket_fd, ptr)]

\* multi_socket_cb, what != CURL_POLL_REMOVE (lines 1487-1546)
multi_socket_cb_watch(st, socket_fd, what, fail) ==
    LET ht == st.poll_list
        socket_event == zend_hash_index_find_ptr(ht, socket_fd)
    IN
    IF socket_event = 0 THEN
        IF fail = "event" THEN st
        ELSE
            LET ptr == Len(st.socket_events) + 1
                new == NewSocketEvent(socket_fd, WhatEvents(what))
            IN
            IF fail \in {"callback", "start"} THEN
                \* the entry is deleted again; the socket event stays as made
                [st EXCEPT !.socket_events = Append(@, new),
                           !.poll_list = zend_hash_index_del(
                                zend_hash_index_add_ptr(ht, socket_fd, ptr), socket_fd)]
            ELSE
                [st EXCEPT !.socket_events = Append(@, [new EXCEPT !.started = TRUE]),
                           !.poll_list = zend_hash_index_add_ptr(ht, socket_fd, ptr)]
    ELSE
        \* socket_event->events |= ...
        [st EXCEPT !.socket_events[socket_event].events = @ \cup WhatEvents(what)]

\* ------------------------------------------- curl_async_select and sockets
\* multi_socket_cb on st = [poll_list, socket_events, notified]: notified
\* becomes TRUE when the bridge's subscribers are notified.
multi_socket_cb(st, socket_fd, what, fail) ==
    IF what = "REMOVE" THEN multi_socket_cb_remove(st, socket_fd)
    ELSE multi_socket_cb_watch(st, socket_fd, what, fail)

\* the invocation creates a socket event
MakesSocketEvent(st, socket_fd, what, fail) ==
    what # "REMOVE" /\ zend_hash_index_find_ptr(st.poll_list, socket_fd) = 0
    /\ fail # "event"

BridgeSt == [poll_list |-> bridge.poll_list, socket_events |-> socket_events,
             notified |-> FALSE]

\* curl_multi_poll_callback / multi_timer_callback: inside
\* curl_multi_socket_action the engine calls multi_socket_cb while a
\* coroutine is suspended in curl_async_select.
MultiSocketCbWith(whats, fails) ==
    /\ pc = "suspended" /\ adapter = "curl_select" /\ waker.alive
    /\ \E socket_fd \in Fds : \E what \in whats : \E fail \in fails :
          LET st == multi_socket_cb(BridgeSt, socket_fd, what, fail)
          IN
          /\ MakesSocketEvent(BridgeSt, socket_fd, what, fail)
                => Len(socket_events) < MaxSlots
          /\ bridge' = [bridge EXCEPT !.poll_list = st.poll_list]
          /\ socket_events' = st.socket_events
          /\ IF st.notified THEN
                /\ MayFire(0)
                /\ waker' = zend_async_waker_callback_resolve(waker, UNDEF, "none")
                /\ events' = [events EXCEPT ![0].fires = @ + 1]
                /\ ticks' = 0
             ELSE UNCHANGED <<waker, events, ticks>>
    /\ UNCHANGED <<pc, adapter, exception, errno, ret, ufds, args, rfds, wfds, efds,
                   aread, awrite, aexcept, res, numfds, cancelled, failure, timedOut>>
    /\ UNCHANGED <<hvars, cvars, socket_slots, thread_locals, timer_events>>

MultiSocketCb == MultiSocketCbWith(WhatMenu, SocketFails)

\* The same for CURL_POLL_IN and CURL_POLL_REMOVE with every step of the
\* callback succeeding.
MultiSocketCbOk == MultiSocketCbWith({"IN", "REMOVE"}, {"none"})

\* curl_multi_socket_action(multi, CURL_SOCKET_TIMEOUT, 0, NULL): the states
\* of the bridge the engine can bring about from those of S with at most n
\* invocations of multi_socket_cb.
RECURSIVE KickStates(_, _)
KickStates(S, n) ==
    IF n = 0 THEN S
    ELSE KickStates(
            S \cup {multi_socket_cb(st, socket_fd, what, fail) :
                        <<st, socket_fd, what, fail>> \in
                            {x \in S \X Fds \X WhatMenu \X SocketFails :
                                MakesSocketEvent(x[1], x[2], x[3], x[4])
                                    => Len(x[1].socket_events) < MaxSlots}},
            n - 1)

\* curl_async_multi_perform: no suspension; nobody is subscribed to the
\* bridge context while it runs.
curl_async_multi_perform(init_ok) ==
    LET b == IF bridge.present THEN bridge ELSE curl_async_multi_event_init(init_ok)
    IN
    /\ adapter' = "curl_multi_perform"
    /\ pc' = "returned"
    /\ IF ~b.present THEN
            /\ ret' = CURLM_INTERNAL_ERROR
            /\ bridge' = b
            /\ UNCHANGED <<numfds, socket_events>>
       ELSE
            \E st \in KickStates({[BridgeSt EXCEPT !.poll_list = b.poll_list]}, MaxKick) :
                /\ bridge' = [b EXCEPT !.poll_list = st.poll_list]
                /\ socket_events' = st.socket_events
                /\ numfds' = nNumUsed(st.poll_list)
                /\ ret' = CURLM_OK

CurlMultiPerformCall ==
    /\ pc = "idle"
    /\ \E init_ok \in BOOLEAN : curl_async_multi_perform(init_ok)
    /\ UNCHANGED <<waker, events, exception, errno, ufds, args, rfds, wfds, efds,
                   aread, awrite, aexcept, res, ticks, cancelled, failure, timedOut>>
    /\ UNCHANGED <<hvars, cvars, socket_slots, thread_locals, timer_events>>

MultiNext ==
    \/ CurlSelectCall
    \/ CurlMultiPerformCall
    \/ MultiSocketCb
    \/ CurlMultiNotify
    \/ TimerFire
    \/ Cancel
    \/ ForeignResume
    \/ IdleTick
    \/ CurlSelectResume

SpecMulti == Init /\ [][MultiNext]_vars

\* One coroutine in curl_async_select with the socket callbacks of the
\* engine, the timeout of the call and its return.
BridgeNext ==
    \/ CurlSelectCall
    \/ MultiSocketCb
    \/ TimerFire
    \/ CurlSelectResume

SpecBridge == Init /\ [][BridgeNext]_vars

\* ---------------------------------------------- timer of the bridge context
\* multi_timer_cb on tb = [timer, timers], timer being async_event->timer
multi_timer_cb(tb, timeout_ms, fail) ==
    LET new == Len(tb.timers) + 1
    IN
    IF timeout_ms < 0 THEN
        IF tb.timer # 0
        THEN [timer |-> 0, timers |-> DisposeEvent(tb.timers, tb.timer)]
        ELSE tb
    ELSE IF fail = "event" THEN tb
    ELSE IF fail = "exception" THEN
        \* the timer event was made and an exception is raised: it is dropped
        [tb EXCEPT !.timers = Append(@, [started |-> FALSE, disposed |-> FALSE])]
    ELSE IF fail \in {"callback", "start"} THEN
        [tb EXCEPT !.timers = Append(@, [started |-> FALSE, disposed |-> TRUE])]
    ELSE
        \* async_event->timer = timer_event
        [timer |-> new,
         timers |-> Append(tb.timers, [started |-> TRUE, disposed |-> FALSE])]

BridgeTimers == [timer |-> bridge.timer, timers |-> timer_events]

\* Inside curl_multi_socket_action the engine calls multi_timer_cb while a
\* coroutine is suspended in curl_async_select.
MultiTimerCbWith(fails) ==
    /\ pc = "suspended" /\ adapter = "curl_select" /\ bridge.present
    /\ \E timeout_ms \in TimeoutMsMenu : \E fail \in fails :
          LET tb == multi_timer_cb(BridgeTimers, timeout_ms, fail)
          IN /\ Len(tb.timers) <= MaxTimers
             /\ bridge' = [bridge EXCEPT !.timer = tb.timer]
             /\ timer_events' = tb.timers
    /\ UNCHANGED <<pc, adapter, waker, events, exception, errno, ret, ufds, args,
                   rfds, wfds, efds, aread, awrite, aexcept, res, numfds, ticks,
                   cancelled, failure, timedOut>>
    /\ UNCHANGED <<hvars, cvars, socket_events, socket_slots, thread_locals>>

MultiTimerCb == MultiTimerCbWith(TimerFails)

\* The same with every step of the callback succeeding.
MultiTimerCbOk == MultiTimerCbWith({"none"})

\* the bridge context with the reactor events its callbacks made
Ctx == [bridge |-> bridge, sockets |-> socket_events, timers |-> timer_events]

\* the socket events poll_list holds
PollListEvents(ht) == {ht[i].ptr : i \in {j \in DOMAIN ht : ht[j] # DeletedSlot}}

\* A stop that cleans the timer up and leaves the socket events alone.
curl_async_multi_event_stop_timer_only(cx) ==
    [bridge |-> [cx.bridge EXCEPT !.timer = 0, !.poll_list = << >>],
     sockets |-> cx.sockets,
     timers |-> IF cx.bridge.timer # 0
                THEN DisposeEvent(StopEvent(cx.timers, cx.bridge.timer), cx.bridge.timer)
                ELSE cx.timers]

\* curl_async_multi_event_stop of a context that is not closed: the timer
\* and every socket event of poll_list are stopped and disposed, and
\* poll_list is cleaned.
curl_async_multi_event_stop(cx) ==
    [bridge |-> [cx.bridge EXCEPT !.timer = 0, !.poll_list = << >>],
     sockets |-> [e \in DOMAIN cx.sockets |->
                    IF e \in PollListEvents(cx.bridge.poll_list)
                    THEN [cx.sockets[e] EXCEPT !.started = FALSE, !.disposed = TRUE]
                    ELSE cx.sockets[e]],
     timers |-> IF cx.bridge.timer # 0
                THEN DisposeEvent(StopEvent(cx.timers, cx.bridge.timer), cx.bridge.timer)
                ELSE cx.timers]

\* curl_async_dtor: async_event is nulled; a context that was there is
\* stopped and disposed (curl_async_multi_event_dtor: already closed,
\* poll_list destroyed, the context freed).
curl_async_dtor(cx) ==
    IF ~cx.bridge.present THEN cx
    ELSE [curl_async_multi_event_stop(cx) EXCEPT !.bridge = NoBridge]

\* The multi handle is destroyed after the call on it returned.
CurlAsyncDtor ==
    /\ pc = "returned" /\ adapter = "curl_select"
    /\ LET cx == curl_async_dtor(Ctx)
       IN /\ bridge' = cx.bridge
          /\ socket_events' = cx.sockets
          /\ timer_events' = cx.timers
    /\ UNCHANGED <<pc, adapter, waker, events, exception, errno, ret, ufds, args,
                   rfds, wfds, efds, aread, awrite, aexcept, res, numfds, ticks,
                   cancelled, failure, timedOut>>
    /\ UNCHANGED <<hvars, cvars, socket_slots, thread_locals>>

\* One coroutine in curl_async_select with the socket and timer callbacks
\* of the engine, and the destruction of the multi handle.
ContextNext ==
    \/ CurlSelectCall
    \/ MultiTimerCb
    \/ TimerFire
    \/ CurlSelectResume

SpecContext == Init /\ [][ContextNext]_vars

\* The waker of the coroutine that returned from curl_async_select is
\* destroyed: its callback on the bridge context is removed.
SelectWakerDestroy ==
    /\ pc = "returned" /\ adapter = "curl_select" /\ waker # NullWaker
    /\ waker' = zend_async_waker_destroy(waker)
    /\ events' = StopAll(events)
    /\ UNCHANGED <<pc, adapter, exception, errno, ret, ufds, args, rfds, wfds, efds,
                   aread, awrite, aexcept, res, numfds, bridge, ticks, cancelled,
                   failure, timedOut>>
    /\ UNCHANGED <<hvars, cvars, rvars>>

\* One coroutine in curl_async_select with socket and timer callbacks of
\* the engine that succeed, the end of the call, and the destruction of the
\* multi handle.
DtorNext ==
    \/ CurlSelectCall
    \/ MultiSocketCbOk
    \/ MultiTimerCbOk
    \/ CurlSelectResume
    \/ SelectWakerDestroy
    \/ CurlAsyncDtor

SpecDtor == Init /\ [][DtorNext]_vars

\* ------------------------------------ dispatchers of the bridge's events
\* curl_multi_socket_action called by a dispatcher of the bridge: the states
\* [poll_list, socket_events, notified] the engine can bring about from st
\* with no call of multi_socket_cb or with one call that succeeds, for
\* CURL_POLL_IN or CURL_POLL_REMOVE.
SocketActionStates(st) ==
    {st} \cup
    {multi_socket_cb(st, socket_fd, what, "none") :
        <<socket_fd, what>> \in
            {x \in Fds \X {"IN", "REMOVE"} :
                MakesSocketEvent(st, x[1], x[2], "none")
                    => Len(st.socket_events) < MaxSlots}}

\* curl_multi_poll_callback (lines 1433-1456) for the socket event e of
\* poll_list, the reactor having stored trig in its triggered_events: the
\* readiness, or the failure exc, is handed to curl_multi_socket_action; the
\* failure is not marked as handled.  The set of the states it can end in.
curl_multi_poll_callback(st, e, trig, exc) ==
    SocketActionStates([st EXCEPT !.socket_events[e].triggered_events = trig,
                                  !.socket_events[e].failed = @ \/ exc # "none"])

\* multi_timer_callback (lines 1372-1378): the timer of the bridge fired;
\* curl_multi_socket_action(curl_m, CURL_SOCKET_TIMEOUT, 0, NULL)
multi_timer_callback(st) == SocketActionStates(st)

\* the socket events of poll_list that are started
ReadyCandidates ==
    {e \in PollListEvents(bridge.poll_list) : socket_events[e].started}

\* A bridge dispatcher ran and left the bridge in st.
BridgeDispatched(st) ==
    /\ bridge' = [bridge EXCEPT !.poll_list = st.poll_list]
    /\ socket_events' = st.socket_events
    /\ IF st.notified THEN
          /\ MayFire(0)
          /\ waker' = zend_async_waker_callback_resolve(waker, UNDEF, "none")
          /\ events' = [events EXCEPT ![0].fires = @ + 1]
          /\ ticks' = 0
       ELSE UNCHANGED <<waker, events, ticks>>
    /\ UNCHANGED <<pc, adapter, exception, errno, ret, ufds, args, rfds, wfds, efds,
                   aread, awrite, aexcept, res, numfds, cancelled, failure, timedOut>>
    /\ UNCHANGED <<hvars, cvars, socket_slots, thread_locals, timer_events>>

\* A socket of poll_list becomes ready while a coroutine is suspended in
\* curl_async_select: the reactor invokes curl_multi_poll_callback.
CurlMultiPollCallback ==
    /\ pc = "suspended" /\ adapter = "curl_select" /\ waker.alive
    /\ \E e \in ReadyCandidates :
       \E trig \in SUBSET socket_events[e].events :
       \E exc \in {"none", "other"} :
       \E st \in curl_multi_poll_callback(BridgeSt, e, trig, exc) :
          BridgeDispatched(st)

\* The timer of the bridge fires while a coroutine is suspended in
\* curl_async_select: the reactor invokes multi_timer_callback.
MultiTimerCallback ==
    /\ pc = "suspended" /\ adapter = "curl_select" /\ waker.alive
    /\ bridge.timer # 0 /\ timer_events[bridge.timer].started
    /\ \E st \in multi_timer_callback(BridgeSt) :
          BridgeDispatched(st)

\* One coroutine in curl_async_select, the callbacks of the engine, and the
\* reactor invoking the dispatchers of the bridge's socket and timer events.
ReadyNext ==
    \/ CurlSelectCall
    \/ MultiSocketCbOk
    \/ MultiTimerCbOk
    \/ CurlMultiPollCallback
    \/ MultiTimerCallback
    \/ TimerFire
    \/ CurlSelectResume

SpecReady == Init /\ [][ReadyNext]_vars

\* -------------------------------- curl_async_select of the earlier variant
\* multi_socket_cb of the earlier variant of the file (lines 560-647) on
\* st = [poll_list, socket_events, notified]: a new socket event is linked
\* through the waker of context->coroutine, which takes it over
\* (zend_async_resume_when with trans_event true); notified stands for
\* ZEND_ASYNC_RESUME(context->coroutine).
multi_socket_cb_earlier(st, socket_fd, what, fail) ==
    LET ht == st.poll_list
        z_handle == zend_hash_index_find_ptr(ht, socket_fd)
        ptr == Len(st.socket_events) + 1
        poll_event == NewSocketEvent(socket_fd, WhatEvents(what))
    IN
    IF what = "REMOVE" THEN
        IF z_handle = 0 THEN st
        ELSE
            LET del == zend_hash_index_del(ht, socket_fd)
            IN [st EXCEPT !.poll_list = del,
                          !.notified = @ \/ nNumUsed(del) = 0]
    ELSE IF z_handle = 0 THEN
        IF fail = "event" THEN st
        ELSE IF fail = "link" THEN
            \* the entry stays in poll_list
            [st EXCEPT !.socket_events = Append(@, poll_event),
                       !.poll_list = zend_hash_index_add_ptr(ht, socket_fd, ptr)]
        ELSE
            [st EXCEPT !.socket_events =
                            Append(@, [poll_event EXCEPT !.started = TRUE,
                                                         !.linked = TRUE]),
                       !.poll_list = zend_hash_index_add_ptr(ht, socket_fd, ptr)]
    ELSE
        [st EXCEPT !.socket_events[z_handle].events = @ \cup WhatEvents(what)]

\* context->coroutine is not assigned anywhere in the file: the calls that
\* use it reach the calling coroutine, or a null pointer.
ContextCoroutineOutcomes == {"coroutine", "crash"}

\* curl_async_select of the earlier variant (lines 722-793) up to
\* ZEND_ASYNC_SUSPEND(): the context is made if there was none; a timeout
\* greater than zero links a timer through the waker.
CurlSelectCallEarlier ==
    /\ pc = "idle"
    /\ \E timeout_ms \in TimeoutMenu :
          /\ args' = [NoArgs EXCEPT !.timeout = timeout_ms]
          /\ waker' = [zend_async_waker_new EXCEPT !.timer = timeout_ms > 0]
    /\ adapter' = "curl_select"
    /\ bridge' = IF bridge.present THEN bridge ELSE curl_async_multi_event_init(TRUE)
    /\ pc' = "suspended"
    /\ UNCHANGED <<events, exception, errno, ret, ufds, rfds, wfds, efds, aread,
                   awrite, aexcept, res, numfds, ticks, cancelled, failure, timedOut>>
    /\ UNCHANGED <<hvars, cvars, rvars>>

\* Inside curl_multi_socket_action the engine calls the earlier
\* multi_socket_cb while the coroutine is suspended in curl_async_select.
MultiSocketCbEarlier ==
    /\ pc = "suspended" /\ adapter = "curl_select"
    /\ \E socket_fd \in Fds : \E what \in WhatMenu : \E fail \in {"none", "event", "link"} :
       \E outcome \in ContextCoroutineOutcomes :
          LET st == multi_socket_cb_earlier(BridgeSt, socket_fd, what, fail)
              uses == \/ st.notified
                      \/ Len(st.socket_events) > Len(socket_events)
          IN
          /\ Len(st.socket_events) <= MaxSlots
          /\ bridge' = [bridge EXCEPT !.poll_list = st.poll_list]
          /\ socket_events' = st.socket_events
          /\ pc' = IF uses /\ outcome = "crash" THEN "crashed" ELSE pc
          /\ waker' = IF st.notified /\ outcome = "coroutine"
                      THEN ResumeCoroutine(waker, "none") ELSE waker
    /\ UNCHANGED <<adapter, events, exception, errno, ret, ufds, args, rfds, wfds,
                   efds, aread, awrite, aexcept, res, numfds, ticks, cancelled,
                   failure, timedOut>>
    /\ UNCHANGED <<hvars, cvars, socket_slots, thread_locals, timer_events>>

\* curl_async_select of the earlier variant from the return of
\* ZEND_ASYNC_SUSPEND() to its return: a timeout failure is cleared, any
\* other stays raised, and the result is CURLM_OK.
CurlSelectResumeEarlier ==
    /\ pc = "suspended" /\ adapter = "curl_select" /\ waker.queued
    /\ pc' = "returned"
    /\ failure' = waker.error
    /\ exception' = IF waker.error \in {"none", "timeout"} THEN "none" ELSE waker.error
    /\ ret' = CURLM_OK
    /\ numfds' = nNumUsed(bridge.poll_list)
    /\ UNCHANGED <<adapter, waker, events, errno, ufds, args, rfds, wfds, efds, aread,
                   awrite, aexcept, res, bridge, ticks, cancelled, timedOut>>
    /\ UNCHANGED <<hvars, cvars, rvars>>

\* The waker of the coroutine that returned is destroyed: every event
\* linked through it is stopped and disposed.
SelectWakerDestroyEarlier ==
    /\ pc = "returned" /\ adapter = "curl_select" /\ waker # NullWaker
    /\ waker' = zend_async_waker_destroy(waker)
    /\ socket_events' = [e \in DOMAIN socket_events |->
                            IF socket_events[e].linked
                            THEN [socket_events[e] EXCEPT !.started = FALSE,
                                                          !.disposed = TRUE,
                                                          !.linked = FALSE]
                            ELSE socket_events[e]]
    /\ UNCHANGED <<pc, adapter, events, exception, errno, ret, ufds, args, rfds, wfds,
                   efds, aread, awrite, aexcept, res, numfds, bridge, ticks, cancelled,
                   failure, timedOut>>
    /\ UNCHANGED <<hvars, cvars, socket_slots, thread_locals, timer_events>>

SelectEarlierNext ==
    \/ CurlSelectCallEarlier
    \/ MultiSocketCbEarlier
    \/ TimerFire
    \/ Cancel
    \/ CurlSelectResumeEarlier
    \/ SelectWakerDestroyEarlier

SpecSelectEarlier == Init /\ [][SelectEarlierNext]_vars


\* ------------------- php_poll2_async beside a transfer of curl_async_perform
\* Coroutine 0 calls php_poll2_async while coroutine 1 runs curl_async_perform
\* on easy handle 1; the reactor runs the dispatchers of both in any order.
ConcurrentNext ==
    \/ PollCall
    \/ PollCallback
    \/ PollResume
    \/ PerformStart(1)
    \/ TransferDone(1)
    \/ Dispatcher
    \/ PerformResume(1)

SpecConcurrent == Init /\ [][ConcurrentNext]_vars

\* ================================================================== claims
Returned(a) == pc = "returned" /\ adapter = a
Suspended(a) == pc = "suspended" /\ adapter = a
\* the coroutine leaves its suspension and the adapter returns
Resumes == pc = "suspended" /\ pc' = "returned"
NothingFired == \A id \in DOMAIN events : events[id].fires = 0

\* C1: after any adapter call has returned, on any path, the coroutine's
\* waker is null.
C1_WakerNullAfterReturn == pc = "returned" => ~waker.alive

\* C2: a php_poll2_async call on a non-empty entry list in which some fd
\* reported readiness (every dispatcher having run at most once, in any
\* order) and which did not fail returns the number of entries whose revents
\* is non-zero on return, whatever the caller had left in revents.
C2_PollIdentity ==
    (Returned("poll") /\ Len(ufds) > 0 /\ ret >= 0 /\ Refires = 0
        /\ \E i \in DOMAIN events : events[i].seen # {})
    => ret = Cardinality({i \in 1..Len(ufds) : ufds[i].revents # {}})

\* C3: after php_select_async returns k >= 0, each set the caller supplied
\* holds exactly the fds the reactor reported for its bit (READABLE for rfds,
\* WRITABLE for wfds, DISCONNECT or PRIORITIZED for efds), and an fd that was
\* in no input set is in no output set.
ReportedFor(bits) == {fd \in DOMAIN events : events[fd].seen \cap bits # {}}
Requested == args.rfds.fds \cup args.wfds.fds \cup args.efds.fds

C3_SelectPreservation ==
    (Returned("select") /\ ret >= 0) =>
        /\ rfds.null \/ rfds.fds = ReportedFor({"READABLE"})
        /\ wfds.null \/ wfds.fds = ReportedFor({"WRITABLE"})
        /\ efds.null \/ efds.fds = ReportedFor({"DISCONNECT", "PRIORITIZED"})
        /\ (rfds.fds \cup wfds.fds \cup efds.fds) \subseteq Requested
        /\ rfds.null = args.rfds.null /\ wfds.null = args.wfds.null
        /\ efds.null = args.efds.null

C3_Witness ==
    /\ Returned("select") /\ ret = 2
    /\ rfds.fds = {1} /\ wfds.fds = {0} /\ ~efds.null /\ efds.fds = {}
    /\ args.rfds.fds = {0, 1}

\* C4 as stated: a call during which the suspended coroutine was cancelled,
\* and which resumed with that cancellation pending, returns -1 with
\* errno = ECANCELED, whatever the adapter.
C4_CancelledReturnsECANCELED ==
    (pc = "returned" /\ cancelled /\ failure = "cancel")
    => (ret = -1 /\ errno = "ECANCELED")

\* C4 as amended: when the coroutine resumes with a cancellation as its
\* pending failure, poll, select and getaddrinfo return -1 with ECANCELED,
\* gethostbyaddr returns NULL and leaves errno alone, curl_async_perform
\* returns ABORTED_BY_CALLBACK and curl_async_select returns INTERNAL_ERROR.
C4_CancellationMapping ==
    [][(Resumes /\ waker.error = "cancel") =>
          /\ adapter \in {"poll", "select", "getaddrinfo"}
                => (ret' = -1 /\ errno' = "ECANCELED")
          /\ adapter = "gethostbyaddr" => (ret' = 0 /\ errno' = errno)
          /\ adapter = "curl_perform" => ret' = CURLE_ABORTED_BY_CALLBACK
          /\ adapter = "curl_select" => ret' = CURLM_INTERNAL_ERROR]_vars

C4_Witness ==
    /\ Returned("curl_select") /\ cancelled /\ failure = "cancel"
    /\ ret = CURLM_INTERNAL_ERROR

\* C5: on every error exit of poll, select and getaddrinfo that follows a
\* suspension the call returns -1 and errno depends on the pending failure
\* only: ECANCELED for a cancellation, ETIMEDOUT for a timeout, EINTR for any
\* other failure and for none; an expired waker timeout is a timeout failure.
ErrnoFor(f) ==
    CASE f = "cancel" -> "ECANCELED"
      [] f = "timeout" -> "ETIMEDOUT"
      [] f = "other" -> "EINTR"
      [] f = "none" -> "EINTR"

C6_PollTimeoutReturnsZero ==
    (Returned("poll") /\ Len(ufds) > 0 /\ args.timeout > 0
        /\ timedOut /\ ~cancelled /\ NothingFired)
    => ret = 0

\* C7: php_poll2_async on a non-empty entry list with timeout = 0 stays
\* suspended for at most one reactor tick when no fd is ready.
C7_PollZeroTimeoutOneTick ==
    (Suspended("poll") /\ Len(ufds) > 0 /\ args.timeout = 0) => ticks <= 1

\* C8: php_poll2_async with a negative timeout arms no timer and never ends
\* by a timeout, whereas with timeout = 0 it returns promptly (within one
\* reactor tick): the two values wait differently.
C8_PollNegativeVersusZero ==
    (adapter = "poll" /\ Len(ufds) > 0) =>
        /\ (args.timeout < 0 /\ pc = "suspended") => ~waker.timer
        /\ args.timeout < 0 => ~timedOut
        /\ (args.timeout = 0 /\ pc = "suspended") => ticks <= 1

\* C9: php_select_async with a non-null zero timeval on fds without pending
\* readiness does not wait as it does without a timeval: it is resumed
\* within one reactor tick, and returns 0 with every supplied set empty.
ZeroTv == ~args.tv.null /\ args.tv.tv_sec = 0 /\ args.tv.tv_usec = 0

C9_SelectZeroTimeval ==
    /\ (Suspended("select") /\ ZeroTv) => ticks <= 1
    /\ (Returned("select") /\ ZeroTv /\ NothingFired /\ ~cancelled /\ ret >= 0)
         => (ret = 0 /\ rfds.fds = {} /\ wfds.fds = {} /\ efds.fds = {})

\* C10: for every entry of a php_poll2_async call whose dispatcher reported
\* readiness, the revents written is a subset of the entry's requested
\* events united with {POLLHUP, POLLERR, POLLNVAL}.
C10_ReventsWithinRequested ==
    Returned("poll") =>
        \A i \in DOMAIN events :
            events[i].seen # {} =>
                ufds[i].revents \subseteq
                    (ufds[i].events \cup {"POLLHUP", "POLLERR", "POLLNVAL"})

\* C11: when the coroutine is about to resume from php_poll2_async or
\* php_select_async, the waker's accumulator equals the number of distinct
\* fds of the call that reported non-zero readiness, however often the
\* dispatcher of an fd ran.
Accumulator == IF waker.result.type = "LONG" THEN waker.result.lval ELSE 0
ReportedFds == {id \in DOMAIN events : events[id].seen # {}}

C11_AccumulatorCountsDistinctFds ==
    (pc = "suspended" /\ adapter \in {"poll", "select"} /\ waker.queued)
    => Accumulator = Cardinality(ReportedFds)

\* A call that is a context error: made outside a coroutine, or with invalid
\* arguments (node and service both null; max_fd above INT_MAX).
ContextErrorCall ==
    /\ pc = "idle"
    /\ \/ \E n \in 0..MaxNfds : \E entries \in Entries(n) :
          \E timeout \in TimeoutMenu : \E fail \in SetupFails(1..n) :
             php_poll2_async(entries, timeout, FALSE, fail)
       \/ \E max_fd \in {MaxFds - 1, MaxFds} : \E huge \in BOOLEAN :
          \E r \in RfdsMenu : \E w \in WfdsMenu : \E e \in EfdsMenu :
          \E tv \in TvMenu : \E coroutine \in BOOLEAN :
          \E fail \in SetupFails(SelectFds(max_fd, r, w, e)) :
             /\ ~coroutine \/ huge
             /\ php_select_async(max_fd, huge, r, w, e, tv, coroutine, fail)
       \/ \E node_null \in BOOLEAN : \E service_null \in BOOLEAN :
          \E coroutine \in BOOLEAN : \E fail \in DnsFails :
             /\ ~coroutine \/ (node_null /\ service_null)
             /\ php_network_getaddrinfo_async(node_null, service_null, coroutine, fail)

\* C12: a context error of php_poll2_async, php_select_async or
\* php_network_getaddrinfo_async returns at once with -1 and errno = EINVAL,
\* and creates neither a waker nor a reactor event.
C12_ContextErrorIsEINVAL ==
    [][ContextErrorCall =>
          /\ pc' = "returned" /\ ret' = -1 /\ errno' = "EINVAL"
          /\ waker' = NullWaker /\ events' = << >>]_vars

\* A call inside a coroutine, with valid arguments, during whose setup the
\* reactor fails to construct an event.
CtorFailureCall ==
    /\ pc = "idle"
    /\ \/ \E n \in 1..MaxNfds : \E entries \in Entries(n) :
          \E timeout \in TimeoutMenu : \E at \in 1..n :
             php_poll2_async(entries, timeout, TRUE, [kind |-> "ctor", at |-> at])
       \/ \E max_fd \in {MaxFds - 1, MaxFds} :
          \E r \in RfdsMenu : \E w \in WfdsMenu : \E e \in EfdsMenu :
          \E tv \in TvMenu : \E at \in SelectFds(max_fd, r, w, e) :
             php_select_async(max_fd, FALSE, r, w, e, tv, TRUE,
                              [kind |-> "ctor", at |-> at])
       \/ \E node_null \in BOOLEAN : \E service_null \in BOOLEAN :
          \E kind \in {"ctor", "null"} :
             /\ ~(node_null /\ service_null)
             /\ php_network_getaddrinfo_async(node_null, service_null, TRUE,
                                              [kind |-> kind, at |-> 0])

\* C13: when the reactor fails to construct an event during the setup of
\* php_poll2_async, php_select_async or php_network_getaddrinfo_async, the
\* call returns -1 with errno = ENOMEM, the waker is destroyed and no event
\* registered by the call is left started.
C13_CtorFailureIsENOMEM ==
    [][CtorFailureCall =>
          /\ pc' = "returned" /\ ret' = -1 /\ errno' = "ENOMEM"
          /\ ~waker'.alive
          /\ \A id \in DOMAIN events' : ~events'[id].live]_vars

\* C14: once an adapter has returned, through whatever exit, no failure is
\* left pending on the coroutine.
C14_NoFailureLeftPending == pc = "returned" => exception = "none"

\* C15: php_network_getaddrinfo_async, resuming from its suspension (the DNS
\* callback having run at most once), returns 0 exactly when the callback ran
\* without a failure before the resumption (the waker result is true), and
\* then *res holds the resolved chain; otherwise it returns non-zero with
\* errno from the errno mapper and *res has not been written.
DnsDelivered == waker.result = ZTrue

C15_GetaddrinfoZeroIffResolved ==
    [][(Resumes /\ adapter = "getaddrinfo" /\ Refires = 0) =>
          /\ ret' = 0 <=> DnsDelivered
          /\ ret' = 0 => res' = 1
          /\ ret' # 0 => (errno' = ErrnoFor(waker.error) /\ res' = 0)]_vars

\* C16: in every sequence of php_network_gethostbyname_async calls of one
\* coroutine at most one hostent buffer is live at any time, no buffer is
\* freed twice, and once the coroutine has ended no buffer is left allocated.
C16_OneHostentFreedOnce ==
    /\ Cardinality(live_hostents) <= 1
    /\ \A h \in DOMAIN frees : frees[h] <= 1
    /\ coroutine_state = "ended" => live_hostents = {}

\* C17: while the coroutine runs, exactly one hostent cleanup callback is
\* registered on its end hook if a php_network_gethostbyname_async call has
\* succeeded, and none otherwise.
C17_OneCleanupCallback ==
    coroutine_state = "running" =>
        end_callbacks = (IF allocated > 0 THEN 1 ELSE 0)

\* C18: with several coroutines in curl_async_perform on distinct easy
\* handles of the shared multi handle, a call that returns without a failure
\* returns the status code of the DONE message of its own handle, and a call
\* returns ABORTED_BY_CALLBACK only when it resumed with a failure, whatever
\* the order of the completions and of the dispatcher runs.
C18_OwnStatusCode ==
    \A h \in Handles :
        performs[h].pc = "returned" =>
            IF performs[h].failure = "none"
            THEN done_code[h] # -1 /\ performs[h].ret = done_code[h]
            ELSE performs[h].ret = CURLE_ABORTED_BY_CALLBACK

C18_Witness ==
    /\ performs[1].pc = "returned" /\ performs[2].pc = "returned"
    /\ performs[1].ret = CURLE_COULDNT_CONNECT /\ performs[2].ret = CURLE_OK

\* C19: curl_async_perform returns FAILED_INIT, without suspending and
\* without creating a waker or registering a curl_event, when it is called
\* outside a coroutine and when the lazy setup left the multi handle null.
C19_FailedInitWithoutSetup ==
    [][(\E coroutine, setup_ok \in BOOLEAN :
            /\ ~coroutine \/ ~setup_ok
            /\ pc = "idle"
            /\ curl_async_perform(coroutine, setup_ok, [kind |-> "none", at |-> 0]))
       => /\ pc' = "returned" /\ ret' = CURLE_FAILED_INIT
          /\ waker' = NullWaker /\ events' = << >>]_vars

\* C20: when curl_async_select resumes because its waker timeout expired, it
\* clears the timeout failure and returns OK with *numfds the number of fds
\* in the bridge's poll_list; no failure is left pending.
C20_TimeoutIsOK ==
    (Returned("curl_select") /\ failure = "timeout") =>
        /\ ret = CURLM_OK
        /\ exception = "none"
        /\ numfds = nNumOfElements(bridge.poll_list)

\* C21: curl_async_multi_perform does not suspend; when it returns OK,
\* *running is the number of fds in poll_list after the kick of the engine
\* (after the additions and removals the kick caused).
C21_RunningIsPollListSize ==
    (Returned("curl_multi_perform") /\ ret = CURLM_OK) =>
        numfds = nNumOfElements(bridge.poll_list)

C24_NoSocketEventLeftStarted ==
    performs[1].pc = "returned" =>
        \A e \in DOMAIN socket_events : ~socket_events[e].started

\* C25: in a drain of the queue of completed handles, the curl_event of
\* every DONE message whose easy handle has one in curl_multi_event_list is
\* notified with the status code of the message and then stopped, which
\* takes it out of the list; for a DONE message without a curl_event no
\* event is touched: no waker, no list entry and no socket event changes.
C25_DrainNotifiesAndStops ==
    [][(messages # << >> /\ messages' = << >>) =>
        LET done == {messages[i].easy_handle : i \in DOMAIN messages}
            matched == done \cap curl_multi_event_list
        IN
        /\ \A i \in DOMAIN messages :
              LET h == messages[i].easy_handle
              IN h \in matched =>
                    /\ performs'[h].waker =
                          zend_async_waker_callback_resolve(
                              performs[h].waker, ZLong(messages[i].result), "none")
                    /\ h \notin curl_multi_event_list'
        /\ \A h \in Handles \ matched : performs'[h] = performs[h]
        /\ curl_multi_event_list' = curl_multi_event_list \ matched
        /\ (matched = {} => socket_events' = socket_events)]_vars

\* C26: when the engine calls curl_socket_cb with an action other than
\* REMOVE for a socket whose slot already holds a socket event, the event
\* is the same one afterwards and its requested bits cover the action: IN
\* gives READABLE, OUT gives WRITABLE.
C26_UpdatedInPlace ==
    \A socket_fd \in Fds : \A what \in WhatMenu \ {"REMOVE"} :
        LET socket_poll == socket_slots[socket_fd].ptr
            st == curl_socket_cb(SharedSt, socket_slots[socket_fd].curl,
                                 socket_fd, what, "none")
        IN socket_poll # 0 =>
              /\ st.slots[socket_fd].ptr = socket_poll
              /\ WhatEvents(what) \subseteq st.sockets[socket_poll].events

\* C27: after any sequence of calls of curl_timer_cb, those made from
\* inside timer_callback included, at most one global timer event is
\* started, and it is the one the thread-local timer points to; a call with
\* a non-negative timeout leaves the previous timer stopped and disposed
\* and at most the new one started, and a call with a negative timeout
\* leaves the current timer stopped and disposed and creates none.
C27_AtMostOneGlobalTimer ==
    /\ \A t \in DOMAIN timer_events :
          timer_events[t].started => t = thread_locals.timer
    /\ \A timeout_ms \in TimeoutMsMenu : \A fail \in TimerFails :
          LET tg == curl_timer_cb(Globals, timeout_ms, fail)
              previous == thread_locals.timer
          IN
          /\ previous # 0 =>
                ~tg.timers[previous].started /\ tg.timers[previous].disposed
          /\ \A t \in DOMAIN tg.timers : tg.timers[t].started => t = tg.tl.timer
          /\ timeout_ms < 0 => tg.tl.timer = 0 /\ Len(tg.timers) = Len(timer_events)
          /\ (timeout_ms >= 0 /\ fail = "none") =>
                /\ tg.tl.timer = Len(timer_events) + 1
                /\ tg.timers[tg.tl.timer].started

\* a timer that replaced a live one, from inside the dispatcher or not
C27_Witness ==
    /\ Len(timer_events) >= 2
    /\ thread_locals.timer = Len(timer_events)
    /\ timer_events[thread_locals.timer].started
    /\ timer_events[1].disposed

C29_RemovedEventDisposed ==
    \A e \in DOMAIN socket_events :
        (\A i \in DOMAIN bridge.poll_list : bridge.poll_list[i].ptr # e)
            => ~socket_events[e].started

\* the slots of poll_list that hold an entry for socket_fd
SlotsOf(ht, socket_fd) == {i \in DOMAIN ht : ht[i].h = socket_fd}

\* C30: poll_list never holds two entries for one fd, and the socket event
\* of every entry is started and is the one of that fd.  After a successful
\* call of multi_socket_cb with an action other than REMOVE for an fd,
\* poll_list holds exactly one entry for the fd, its socket event is
\* started and its requested bits include those of the action; when the fd
\* had an entry, the event is the same one, its bits are the earlier ones
\* with the new ones added, and no socket event was made.
C30_OneStartedEventPerFd ==
    /\ \A socket_fd \in Fds :
          /\ Cardinality(SlotsOf(bridge.poll_list, socket_fd)) <= 1
          /\ \A i \in SlotsOf(bridge.poll_list, socket_fd) :
                LET e == bridge.poll_list[i].ptr
                IN socket_events[e].started /\ socket_events[e].socket = socket_fd
    /\ \A socket_fd \in Fds : \A what \in WhatMenu \ {"REMOVE"} :
          LET st == multi_socket_cb(BridgeSt, socket_fd, what, "none")
              before == zend_hash_index_find_ptr(bridge.poll_list, socket_fd)
              after == zend_hash_index_find_ptr(st.poll_list, socket_fd)
          IN
          /\ Cardinality(SlotsOf(st.poll_list, socket_fd)) = 1
          /\ st.socket_events[after].started
          /\ st.socket_events[after].socket = socket_fd
          /\ WhatEvents(what) \subseteq st.socket_events[after].events
          /\ IF before # 0
             THEN /\ after = before
                  /\ st.socket_events[after].events =
                        socket_events[before].events \cup WhatEvents(what)
                  /\ Len(st.socket_events) = Len(socket_events)
             ELSE /\ after = Len(socket_events) + 1
                  /\ st.socket_events[after].events = WhatEvents(what)

\* two fds watched, one of them for both directions
C30_Witness ==
    /\ pc = "suspended" /\ adapter = "curl_select"
    /\ nNumOfElements(bridge.poll_list) = 2
    /\ \E i \in DOMAIN bridge.poll_list :
          /\ bridge.poll_list[i] # DeletedSlot
          /\ socket_events[bridge.poll_list[i].ptr].events = {"READABLE", "WRITABLE"}

\* C31: after any sequence of calls of multi_timer_cb on one multi handle,
\* at most one timer event of the bridge context is started, and it is the
\* one async_event->timer points to.
C31_AtMostOneBridgeTimer ==
    \A t \in DOMAIN timer_events : timer_events[t].started => t = bridge.timer

\* C32: curl_async_dtor on a multi handle with a bridge context leaves
\* every socket event that poll_list held and the timer of the context
\* stopped and disposed, poll_list empty and async_event null, and touches
\* no other event; on a handle without a context it changes nothing, so a
\* second call changes nothing.
C32_DtorDisposesContext ==
    LET cx == curl_async_dtor(Ctx)
    IN
    /\ cx.bridge = NoBridge
    /\ \A e \in PollListEvents(bridge.poll_list) :
          ~cx.sockets[e].started /\ cx.sockets[e].disposed
    /\ bridge.timer # 0 =>
          ~cx.timers[bridge.timer].started /\ cx.timers[bridge.timer].disposed
    /\ \A e \in DOMAIN socket_events \ PollListEvents(bridge.poll_list) :
          cx.sockets[e] = socket_events[e]
    /\ \A t \in DOMAIN timer_events \ {bridge.timer} : cx.timers[t] = timer_events[t]
    /\ ~bridge.present => cx = Ctx
    /\ curl_async_dtor(cx) = cx

\* the handle was destroyed with a socket event in poll_list and a timer
C32_Witness ==
    /\ pc = "returned" /\ adapter = "curl_select" /\ ~bridge.present
    /\ \E e \in DOMAIN socket_events : socket_events[e].disposed
    /\ \E t \in DOMAIN timer_events :
          timer_events[t].disposed /\ t = Len(timer_events)

\* C33: the socket events and the timer of the bridge are not linked
\* through the waker of the coroutine that called curl_async_select: no
\* socket event of poll_list is linked through it, and the step in which
\* the waker of a call that returned is destroyed leaves poll_list, the
\* socket events it holds and the timer of the bridge as they were.
C33_BridgeEventsNotInWaker ==
    /\ [](\A e \in PollListEvents(bridge.poll_list) : ~socket_events[e].linked)
    /\ [][(/\ pc = "returned" /\ adapter = "curl_select"
           /\ waker # NullWaker /\ waker' = NullWaker)
            => /\ bridge' = bridge
               /\ \A e \in PollListEvents(bridge.poll_list) :
                     socket_events'[e] = socket_events[e]
               /\ timer_events' = timer_events]_vars

\* C34: a coroutine suspended in curl_async_select is resumed as soon as a
\* socket of poll_list becomes ready or the timer of the bridge fires:
\* whatever the engine does inside the dispatcher of a started socket event
\* of poll_list, or inside the dispatcher of the started timer of the
\* bridge, the subscribers of the bridge are notified.
C34_ResumedOnFirstReadiness ==
    (pc = "suspended" /\ adapter = "curl_select" /\ waker.alive) =>
        /\ \A e \in ReadyCandidates :
           \A trig \in SUBSET socket_events[e].events \ {{}} :
           \A st \in curl_multi_poll_callback(BridgeSt, e, trig, "none") :
              st.notified
        /\ (bridge.timer # 0 /\ timer_events[bridge.timer].started)
              => \A st \in multi_timer_callback(BridgeSt) : st.notified

\* C35: a dispatcher invoked with a failure marks the failure of its event
\* as handled: no socket event of the single-request bridge or of a bridge
\* context whose dispatcher the reactor invoked with a failure is left with
\* the failure not handled.
C35_FailureMarkedHandled ==
    \A e \in DOMAIN socket_events :
        socket_events[e].failed => socket_events[e].exception_handled

\* the events of the call whose dispatcher reports new bits in this step
NewlyReported ==
    {i \in DOMAIN events : i \in DOMAIN events' /\ events'[i].fires = events[i].fires + 1
                            /\ events'[i].seen # events[i].seen}
\* the events of the call whose dispatcher runs in this step
Dispatched ==
    {i \in DOMAIN events : i \in DOMAIN events' /\ events'[i].fires = events[i].fires + 1}
Count(w) == IF w.result.type = "LONG" THEN w.result.lval ELSE 0

\* C36: in php_poll2_async and php_select_async every dispatcher that runs
\* while the coroutine is suspended leaves it scheduled and still suspended,
\* whether or not an earlier dispatcher had scheduled it; a dispatcher that
\* reports new readiness adds one to the accumulator also when the coroutine
\* was already scheduled, and none changes the accumulator otherwise than by
\* adding one; the call that resumes without a failure returns the
\* accumulator, so it counts every callback that reported readiness before
\* the coroutine ran.
C36_LaterCallbacksAccumulate ==
    [][(pc = "suspended" /\ adapter \in {"poll", "select"})
        => /\ Dispatched # {}
                => /\ waker'.queued /\ pc' = "suspended"
                   /\ Count(waker') \in {Count(waker), Count(waker) + 1}
           /\ NewlyReported # {} => Count(waker') = Count(waker) + 1
           /\ (Resumes /\ waker.error = "none") => ret' = Count(waker)]_vars

\* a call returned 2 after two of its events had reported readiness, the
\* second one when the coroutine was already scheduled
C36_Witness ==
    /\ pc = "returned" /\ adapter \in {"poll", "select"}
    /\ failure = "none" /\ ret = 2
    /\ Cardinality({i \in DOMAIN events : events[i].fires = 1 /\ events[i].seen # {}}) = 2

\* C37: once php_poll2_async or php_select_async has returned, the waker of
\* the call is destroyed and no event the call created is still started, so
\* the reactor can invoke no dispatcher of the call again: neither one of an
\* event that had fired nor one of an event that had not.
C37_NoCallbackAfterReturn ==
    (pc = "returned" /\ adapter \in {"poll", "select"}) =>
        /\ waker = NullWaker
        /\ \A i \in DOMAIN events : ~events[i].live /\ ~MayFire(i)

\* a call returned after one of its events had fired while another had not
C37_Witness ==
    /\ pc = "returned" /\ adapter \in {"poll", "select"}
    /\ \E i \in DOMAIN events : events[i].fires = 0
    /\ \E j \in DOMAIN events : events[j].fires > 0

\* C38: a php_select_async call that returns -1, on whichever path, leaves
\* the caller's rfds, wfds and efds as they were on entry, also when
\* dispatchers had recorded readiness in the scratch sets before the
\* failure.
C38_ErrorLeavesSetsAlone ==
    (pc = "returned" /\ adapter = "select" /\ ret = -1) =>
        rfds = args.rfds /\ wfds = args.wfds /\ efds = args.efds

\* a call returned -1 after a dispatcher had recorded a descriptor in the
\* scratch read set that the caller's read set, not null, would have shown
C38_Witness ==
    /\ pc = "returned" /\ adapter = "select" /\ ret = -1
    /\ ~rfds.null /\ aread # {} /\ FdSet(aread) # rfds

\* C39: curl_multi_event_list holds exactly the curl_events that were
\* started and not stopped, each attached to the multi handle, and the stop
\* or disposal of one curl_event takes neither the entry nor the attachment
\* of another one that is live, also when two coroutines call
\* curl_async_perform with the same easy handle.
C39_ListHoldsLiveEvents ==
    /\ [](curl_multi_event_list = LiveCurlEvents)
    /\ [](LiveCurlEvents # {} => SameCurl \in multi_handles)
    /\ [][\A c \in Handles : \A d \in Handles \ {c} :
            (/\ performs[c].pc = "suspended" /\ performs'[c].pc = "returned"
             /\ d \in LiveCurlEvents /\ d \in curl_multi_event_list
             /\ SameCurl \in multi_handles)
               => d \in curl_multi_event_list' /\ SameCurl \in multi_handles']_vars

\* C40: under fair scheduling every coroutine suspended in
\* curl_async_perform whose DONE message the engine has queued is eventually
\* resumed and returns, also when the message was queued by the kick of the
\* start of its curl_event, before any dispatcher ran.
C40_DoneEventuallyResumes ==
    \A h \in Handles :
        (performs[h].pc = "suspended" /\ done_code[h] # -1)
            ~> (performs[h].pc = "returned")

====
